---- MODULE Spec2Model ----
(***************************************************************************)
(* The agent orchestration loop of src/src/agent/Agent.ts: one Agent       *)
(* (message history, tool list, tool registry), its chat() loop with the   *)
(* two suspension points (await generate, await tool.action), the tool     *)
(* executor and the exhaustion message (Spec); buildSystemInstruction of   *)
(* src/examples/kiosk-agent/src/prompts.ts on its own (PromptSpec); the    *)
(* request contents of src/packages/gemini/gemini.ts; two Agent instances  *)
(* side by side (TwoSpec); getHistory() and the array it returns           *)
(* (HistorySpec); an Agent built with any tool list (RegistrySpec); one     *)
(* generate call of the Gemini client against the network (GeminiSpec);    *)
(* filterToolMessages of src/src/utils/messageFilter.ts (FilterSpec);      *)
(* buildExhaustionMessage on its own (ExhaustSpec); two chat() calls and   *)
(* clearHistory() on one Agent with callers that do not wait               *)
(* (ConcurrentSpec); the chat drawer of the kiosk application, ChatDrawer  *)
(* and ChatInput (DrawerSpec); AtriusMap.getInstance (SingletonSpec).      *)
(*                                                                         *)
(* JavaScript values are modelled as strings: Null and Undefined are       *)
(* tokens, "<0>" stands for a falsy non-null value (0, false), "<obj>" for *)
(* an object.  An object key that is absent is a record field that is      *)
(* absent (read with Get, which yields Undefined as in JavaScript).        *)
(***************************************************************************)
EXTENDS Integers, Sequences, FiniteSets, TLC

\* ------------------------------------------------------------------ bounds
\* how far a session may be from the usual one.  A user text other than the
\* usual one and a clearHistory() call take 1 of it; a chat() call after the
\* first one, an invocation other than the provider's usual one, a second
\* invocation in a batch and a text next to a batch take 2 each
MaxOdd == 2
\* number of responses with tool calls the provider gives over the session
MaxRounds == 10
\* largest iteration number buildSystemInstruction is applied to on its own
MaxGiven == 13
\* number of chat() calls on the second Agent, where there are two
MaxOtherTurns == 1
\* number of changes the caller makes to an array getHistory() returned
MaxEdits == 1
\* length of a tool list an Agent is built with, where the list is an input
MaxTools == 2

\* length of a message list given to generate
MaxMessages == 2
\* length of a message list given to filterToolMessages
MaxFiltered == 3
\* number of parts in the content of a provider response
MaxParts == 2
\* length of the lists buildExhaustionMessage is applied to on its own
MaxOutcomes == 3
\* number of batches the provider gives a chat() call that shares the Agent
\* with another call under way
MaxBatches == 2
\* number of clearHistory() calls made while a chat() call is under way
MaxClears == 1
\* number of messages sent from the chat drawer
MaxSends == 3
\* number of AtriusMap.getInstance calls
MaxCallers == 3

\* ------------------------------------------------------- program constants
MAX_ITERATIONS == 10

\* ------------------------------------------------------ JavaScript values
Null == "<null>"
Undefined == "<undefined>"
Zero == "<0>"
Obj == "<obj>"

Get(r, f) == IF f \in DOMAIN r THEN r[f] ELSE Undefined

\* truthiness of a (non-array) JavaScript value
Truthy(v) == v \notin {Null, Undefined, Zero, ""}

RECURSIVE Join(_, _)
Join(names, sep) ==
  IF Len(names) = 0 THEN ""
  ELSE IF Len(names) = 1 THEN names[1]
  ELSE names[1] \o sep \o Join(Tail(names), sep)

Last(s) == s[Len(s)]

\* --------------------------------------------------------------- messages
\* (a history that takes a user text that looks like JSON for a tool message)
UserInputParsed(text) ==
  IF SubSeq(text, 1, 1) = "{"
    THEN [role |-> "user", type |-> "tool_results", content |-> <<>>]
    ELSE [role |-> "user", type |-> "user_input", content |-> text]

UserInput(text) == [role |-> "user", type |-> "user_input", content |-> text]
AssistantResponse(text) ==
  [role |-> "assistant", type |-> "assistant_response", content |-> text]
ToolCallsMessage(calls) ==
  [role |-> "assistant", type |-> "tool_calls", content |-> calls]
ToolResultsMessage(results) ==
  [role |-> "user", type |-> "tool_results", content |-> results]

\* ------------------------------------------------------------------ tools
\* A tool, as far as the Agent looks at it: its name; the description tells
\* two tools of the same name apart.  What its handler does is action.
Tool(name, description) == [name |-> name, description |-> description]

search == Tool("search", "Search for points of interest (POIs) with flexible filtering.")
getPOIDetails == Tool("getPOIDetails", "Get detailed information about a specific point of interest")
getBuildingsAndLevels == Tool("getBuildingsAndLevels", "Get the complete structure of this venue showing all buildings and floors.")
showPOI == Tool("showPOI", "Display a POI on the map...")
showDirections == Tool("showDirections", "Get turn-by-turn directions from the user's current location.")

\* new Map(list.map((tool) => [tool.name, tool])): of two entries with the
\* same key the later one stays
MapOfTools(list) ==
  [name \in {list[i].name : i \in 1..Len(list)} |->
     list[CHOOSE i \in 1..Len(list) :
            /\ list[i].name = name
            /\ \A j \in (i + 1)..Len(list) : list[j].name # name]]

\* ------------------------------------------------------------ environment
\* The tool handlers.  A handler is a function of its arguments: the model
\* names each argument value after what the handler does with it.
ArgValues == {"ok", "zero", "void", "throw", "throwEmpty", "throwValue"}

action(name, args) ==
  CASE args = "ok"         -> [kind |-> "return", value |-> Obj]
    [] args = "zero"       -> [kind |-> "return", value |-> Zero]
    [] args = "void"       -> [kind |-> "return", value |-> Undefined]
    [] args = "throw"      -> [kind |-> "throw", isError |-> TRUE, message |-> "timeout"]
    [] args = "throwEmpty" -> [kind |-> "throw", isError |-> TRUE, message |-> ""]
    [] args = "throwValue" -> [kind |-> "throw", isError |-> FALSE, message |-> Undefined]

\* an invocation that carries the provider's thought signature
SignedInvocation ==
  [name |-> "search", args |-> "ok", thoughtSignature |-> "sig-A"]

\* what the provider may ask for: the registered tool "search" with every
\* argument value, a tool that is not registered, and an invocation with a
\* thought signature
Invocations ==
  {[name |-> "search", args |-> a] : a \in ArgValues}
    \cup {[name |-> "bogus", args |-> "ok"]}
    \cup {SignedInvocation}

\* the invocation the provider usually asks for in this session
UsualInvocations ==
  {[name |-> "search", args |-> a] : a \in {"ok", "zero", "throw"}}
    \cup {SignedInvocation}
Texts == {Null, "", "Found it."}
\* what the user may type: the usual question, and a text that is JSON
UsualUserText == "Where is the bathroom?"
UserTexts == {UsualUserText, "{\"query\":\"find bathrooms\"}"}

VARIABLES
  messages, tools, toolRegistry,            \* fields of the Agent
  pc,                                       \* "idle", "generate", "handler"
  iterations, allToolCalls, allToolResults, \* locals of chat()
  finalText, response, toolResults, tc,
  returned, status,                         \* how the latest chat() settled
  sent, genCalls, events, before, said,     \* what the loop did (observed)
  replies,                                  \* the batches generate returned
  usual, odd, turns, rounds,                \* the provider and the caller
  pinned,                                   \* the kiosk's pinned location
  given, instruction,                       \* buildSystemInstruction, applied
  other, otherTurns,                        \* a second Agent and its caller
  held, edits,                              \* an array getHistory() returned
  input, offered,                           \* a history and a tool list, given
  shown,                                    \* filterToolMessages, applied
  gpc, retryCount,                          \* GeminiClient.generateWithRetry
  requests, fetched, bodies, answer,        \* what it posted, got and gave
  outcomes, called, exhaustion,             \* buildExhaustionMessage, applied
  clears,                                   \* clearHistory() calls in a turn
  uiMessages, isTyping, draft,              \* state of ChatDrawer and ChatInput
  rendered, chats,                          \* its last render, its chat() calls
  instance, initPromise,                    \* static fields of AtriusMap
  newMapCalls, callers                      \* newMap and getInstance calls

\* what no step of chat() touches
\* the Gemini client on its own and the message filter
wire == <<input, offered, shown, gpc, retryCount, requests, fetched, bodies,
          answer>>

\* what stands next to the Agent and its client
exhaust == <<outcomes, called, exhaustion>>
drawer == <<uiMessages, isTyping, draft, rendered, chats>>
singleton == <<instance, initPromise, newMapCalls, callers>>
app == <<exhaust, clears, drawer, singleton>>

outside == <<pinned, given, instruction, other, otherTurns, held, edits, wire,
             app>>

\* the first Agent, its provider and its caller
locals == <<tools, toolRegistry, pc, iterations, allToolCalls,
            allToolResults, finalText, response, toolResults, tc, returned,
            status, sent, genCalls, events, before, said, replies, usual,
            odd, turns, rounds>>
first == <<messages, locals>>

vars == <<messages, tools, toolRegistry, pc, iterations, allToolCalls,
          allToolResults, finalText, response, toolResults, tc, returned,
          status, sent, genCalls, events, before, said, replies, usual,
          odd, turns, rounds, outside>>

\* the part of the state chat() works on, as one record
Cur ==
  [messages |-> messages, pc |-> pc, iterations |-> iterations,
   allToolCalls |-> allToolCalls, allToolResults |-> allToolResults,
   finalText |-> finalText, response |-> response,
   toolResults |-> toolResults, tc |-> tc, returned |-> returned,
   status |-> status, sent |-> sent, genCalls |-> genCalls,
   events |-> events]

Becomes(f) ==
  /\ messages' = f.messages
  /\ pc' = f.pc
  /\ iterations' = f.iterations
  /\ allToolCalls' = f.allToolCalls
  /\ allToolResults' = f.allToolResults
  /\ finalText' = f.finalText
  /\ response' = f.response
  /\ toolResults' = f.toolResults
  /\ tc' = f.tc
  /\ returned' = f.returned
  /\ status' = f.status
  /\ sent' = f.sent
  /\ genCalls' = f.genCalls
  /\ events' = f.events

NoResponse == [none |-> TRUE]
NoResult == [none |-> TRUE]
NothingSent == [none |-> TRUE]
NoArray == [none |-> TRUE]

\* an Agent as new Agent() leaves it, with no chat() call made
NewAgent ==
  [messages |-> <<>>, pc |-> "idle", iterations |-> 0,
   allToolCalls |-> <<>>, allToolResults |-> <<>>, finalText |-> "",
   response |-> NoResponse, toolResults |-> <<>>, tc |-> 1,
   returned |-> NoResult, status |-> "new", sent |-> NothingSent,
   genCalls |-> 0, events |-> <<>>]

\* ------------------------------------------------------------ the executor
UnknownToolResult(name) ==
  [name |-> name, result |-> Null, error |-> "Unknown tool: " \o name]

\* (an executor that writes error: null next to the value of a success)
SuccessResultNullError(name, result) ==
  [name |-> name, result |-> result, error |-> Null]

SuccessResult(name, result) == [name |-> name, result |-> result]

\* (an executor that reports every failure with the generic message)
ErrorMessageGeneric(thrown) == "Unknown error"

ErrorMessage(thrown) ==
  IF thrown.isError THEN thrown.message ELSE "Unknown error"

FailureResult(name, thrown) ==
  [name |-> name, result |-> Null, error |-> ErrorMessage(thrown)]

SettledResult(name, outcome) ==
  IF outcome.kind = "return"
    THEN SuccessResult(name, outcome.value)
    ELSE FailureResult(name, outcome)

\* ------------------------------------------------- the exhaustion message
CLARIFY_MESSAGE ==
  "I wasn't able to explore much before running out of iteration space."
EXPLORED_MESSAGE(toolNames) ==
  "I've explored the venue and found some information (called: "
    \o toolNames \o "), but I'm running low on thinking space."
APOLOGY_MESSAGE ==
  "I tried searching for what you're looking for, but hit some limits before I could fully complete it."
FALLBACK_MESSAGE ==
  "I've gathered what I could, but ran out of thinking space before finishing up."

IsSuccessful(r) == ~Truthy(Get(r, "error")) /\ Truthy(r.result)
IsFailed(r) == Truthy(Get(r, "error"))

ToolNames(calls) == [i \in 1..Len(calls) |-> calls[i].name]

\* (a rule that apologises only when nothing succeeded)
buildExhaustionMessageStrictApology(results, calls) ==
  LET successCount == Len(SelectSeq(results, IsSuccessful))
      failureCount == Len(SelectSeq(results, IsFailed))
  IN  IF successCount = 0 /\ failureCount = 0 THEN CLARIFY_MESSAGE
      ELSE IF successCount > 0 /\ failureCount = 0
        THEN EXPLORED_MESSAGE(Join(ToolNames(calls), ", "))
      ELSE IF failureCount > 0 /\ successCount = 0 THEN APOLOGY_MESSAGE
      ELSE FALLBACK_MESSAGE

buildExhaustionMessage(results, calls) ==
  LET successCount == Len(SelectSeq(results, IsSuccessful))
      failureCount == Len(SelectSeq(results, IsFailed))
  IN  IF successCount = 0 /\ failureCount = 0 THEN CLARIFY_MESSAGE
      ELSE IF successCount > 0 /\ failureCount = 0
        THEN EXPLORED_MESSAGE(Join(ToolNames(calls), ", "))
      ELSE IF failureCount > 0 THEN APOLOGY_MESSAGE
      ELSE FALLBACK_MESSAGE

\* ------------------------------------------------- the Gemini adapter
\* (an adapter that rebuilds the function call without its signature)
functionCallPartUnsigned(call) ==
  [functionCall |-> [name |-> call.name, args |-> call.args],
   thoughtSignature |-> Undefined]

functionCallPart(call) ==
  [functionCall |-> [name |-> call.name, args |-> call.args],
   thoughtSignature |-> Get(call, "thoughtSignature")]

functionResponsePart(tr) ==
  [functionResponse |->
     [name |-> tr.name,
      response |-> [result |-> IF Truthy(Get(tr, "error"))
                                 THEN [error |-> tr.error]
                                 ELSE tr.result]]]

\* buildContents: the history in the provider's format
buildContents(msgs) ==
  [i \in 1..Len(msgs) |->
     LET msg == msgs[i]
         role == IF msg.role = "user" THEN "user" ELSE "model"
     IN  CASE msg.type \in {"user_input", "assistant_response"} ->
                [role |-> role, parts |-> <<[text |-> msg.content]>>]
           [] msg.type = "tool_calls" ->
                [role |-> role,
                 parts |-> [k \in 1..Len(msg.content) |->
                              functionCallPart(msg.content[k])]]
           [] msg.type = "tool_results" ->
                [role |-> role,
                 parts |-> [k \in 1..Len(msg.content) |->
                              functionResponsePart(msg.content[k])]]]

\* JSON.stringify leaves out a key whose value is undefined
stringifyPart(part) ==
  IF "thoughtSignature" \in DOMAIN part /\ part.thoughtSignature = Undefined
    THEN [k \in DOMAIN part \ {"thoughtSignature"} |-> part[k]]
    ELSE part

\* the contents of the request body generate posts for a history
requestContents(msgs) ==
  LET contents == buildContents(msgs)
  IN  [i \in 1..Len(contents) |->
         [role |-> contents[i].role,
          parts |-> [k \in 1..Len(contents[i].parts) |->
                       stringifyPart(contents[i].parts[k])]]]

\* toFunctionDeclarations: the tools as the provider is told of them
toFunctionDeclarations(list) ==
  [i \in 1..Len(list) |->
     [name |-> list[i].name, description |-> list[i].description]]

\* the request generateWithRetry builds, as JSON.stringify writes it: the
\* tools key is there when there are declarations, the systemInstruction key
\* when the instruction is not empty
buildRequest(msgs, list, systemInstruction) ==
  LET functionDeclarations == toFunctionDeclarations(list)
      keys == {"contents"}
                \cup (IF Len(functionDeclarations) > 0 THEN {"tools"} ELSE {})
                \cup (IF Truthy(systemInstruction)
                        THEN {"systemInstruction"} ELSE {})
  IN  [k \in keys |->
         CASE k = "contents" -> requestContents(msgs)
           [] k = "tools" ->
                <<[functionDeclarations |-> functionDeclarations]>>
           [] k = "systemInstruction" ->
                [parts |-> <<[text |-> systemInstruction]>>]]

\* geminiResponse.candidates?.[0]?.finishReason
finishReasonOf(body) ==
  IF Len(body.candidates) = 0 THEN Undefined
  ELSE Get(body.candidates[1], "finishReason")

\* response.candidates?.[0]?.content?.parts, an empty list when it is
\* undefined (parseResponse gives the same result for both)
partsOf(body) ==
  IF Len(body.candidates) = 0 THEN <<>>
  ELSE IF "content" \notin DOMAIN body.candidates[1] THEN <<>>
  ELSE body.candidates[1].content.parts

\* the loop of parseResponse over the parts: the text of the last part that
\* has one, null when none has
RECURSIVE textOfParts(_, _)
textOfParts(parts, text) ==
  IF Len(parts) = 0 THEN text
  ELSE textOfParts(Tail(parts),
                   IF "text" \in DOMAIN Head(parts)
                     THEN Head(parts).text ELSE text)

\* ... and one invocation for every other part that has a functionCall
RECURSIVE toolCallsOfParts(_)
toolCallsOfParts(parts) ==
  IF Len(parts) = 0 THEN <<>>
  ELSE LET part == Head(parts)
           rest == toolCallsOfParts(Tail(parts))
       IN  IF "text" \notin DOMAIN part /\ "functionCall" \in DOMAIN part
             THEN <<[name |-> part.functionCall.name,
                     args |-> part.functionCall.args,
                     thoughtSignature |-> Get(part, "thoughtSignature")]>>
                    \o rest
             ELSE rest

\* parseResponse; toolCalls: null is the toolCalls field left out, as in the
\* responses the Agent is given
parseResponse(body) ==
  LET text == textOfParts(partsOf(body), Null)
      toolCalls == toolCallsOfParts(partsOf(body))
  IN  IF Len(toolCalls) > 0
        THEN [text |-> text, toolCalls |-> toolCalls]
        ELSE [text |-> text]

\* new GeminiError(message, statusCode, responseBody)
GeminiError(res) ==
  [name |-> "GeminiError",
   message |-> "Gemini API error: " \o ToString(res.status) \o " "
                 \o res.statusText,
   statusCode |-> res.status,
   responseBody |-> res.text]

\* ------------------------------------------------ the system instruction
\* Strings are strings: + is \o, includes() is Contains, startsWith() is
\* StartsWith.  The long literals are cut down to their first words.
Contains(s, sub) ==
  \E i \in 1..(Len(s) - Len(sub) + 1) : SubSeq(s, i, i + Len(sub) - 1) = sub

StartsWith(s, prefix) ==
  Len(prefix) <= Len(s) /\ SubSeq(s, 1, Len(prefix)) = prefix

BASE_SYSTEM_INSTRUCTION ==
  "Role: You are the Airport Assistant. Operational Protocols: Search First."

TOOLS_INSTRUCTIONS ==
  "\nTools:\n    search: Find POIs across the entire venue.\n    showDirections: Provide turn-by-turn navigation."

\* getPinnedLocation() gives null or a pinned location
NoPin == [none |-> TRUE]
PinnedLocations ==
  {[pinTitle |-> t, floorId |-> f] :
     t \in {"Gate B12 Kiosk", "Lobby"}, f \in {"floor-1", "floor-2"}}

buildLocationContext ==
  IF pinned = NoPin THEN ""
  ELSE "\n\nLocation Awareness:\n    You are located at \"" \o pinned.pinTitle
         \o "\" on floor \"" \o pinned.floorId \o "\"."

NO_ITERATIONS_NOTE ==
  "\n\nYou have no iterations left. Provide your final answer based on information already gathered, or ask clarifying questions to help refine future searches."

\* (a note that counts the iteration under way as used up)
RemainingNoteOffByOne(i) ==
  "\n\nNote: You have " \o ToString(MAX_ITERATIONS - i - 1)
    \o " iteration(s) remaining. Prioritize gathering the most critical information and prepare to wrap up soon."

RemainingNote(i) ==
  "\n\nNote: You have " \o ToString(MAX_ITERATIONS - i)
    \o " iteration(s) remaining. Prioritize gathering the most critical information and prepare to wrap up soon."

\* (a warning that starts one iteration later)
buildSystemInstructionLateWarning(i) ==
  IF i >= MAX_ITERATIONS
    THEN BASE_SYSTEM_INSTRUCTION \o buildLocationContext \o NO_ITERATIONS_NOTE
  ELSE IF i + 1 >= MAX_ITERATIONS
    THEN BASE_SYSTEM_INSTRUCTION \o buildLocationContext \o TOOLS_INSTRUCTIONS
           \o RemainingNote(i)
  ELSE BASE_SYSTEM_INSTRUCTION \o buildLocationContext \o TOOLS_INSTRUCTIONS

\* (an instruction that goes on describing the tools at the ceiling)
buildSystemInstructionKeepingTools(i) ==
  IF i >= MAX_ITERATIONS
    THEN BASE_SYSTEM_INSTRUCTION \o buildLocationContext \o TOOLS_INSTRUCTIONS
           \o NO_ITERATIONS_NOTE
  ELSE IF i + 2 >= MAX_ITERATIONS
    THEN BASE_SYSTEM_INSTRUCTION \o buildLocationContext \o TOOLS_INSTRUCTIONS
           \o RemainingNote(i)
  ELSE BASE_SYSTEM_INSTRUCTION \o buildLocationContext \o TOOLS_INSTRUCTIONS

buildSystemInstruction(i) ==
  IF i >= MAX_ITERATIONS
    THEN BASE_SYSTEM_INSTRUCTION \o buildLocationContext \o NO_ITERATIONS_NOTE
  ELSE IF i + 2 >= MAX_ITERATIONS
    THEN BASE_SYSTEM_INSTRUCTION \o buildLocationContext \o TOOLS_INSTRUCTIONS
           \o RemainingNote(i)
  ELSE BASE_SYSTEM_INSTRUCTION \o buildLocationContext \o TOOLS_INSTRUCTIONS

\* ---------------------------------------------------------------- chat()
\* (a loop that never withdraws the tools)
ToolsNeverWithdrawn(iteration) == tools

ToolsForThisIteration(iteration) ==
  IF iteration = MAX_ITERATIONS THEN <<>> ELSE tools

AgentMessage(text, calls, results) ==
  LET base == [role |-> "assistant", content |-> text]
      withCalls ==
        IF Len(calls) > 0
          THEN [k \in DOMAIN base \cup {"toolCalls"} |->
                  IF k = "toolCalls" THEN calls ELSE base[k]]
          ELSE base
  IN  IF Len(results) > 0
        THEN [k \in DOMAIN withCalls \cup {"toolResults"} |->
                IF k = "toolResults" THEN results ELSE withCalls[k]]
        ELSE withCalls

AgentRunResult(text, calls, results) ==
  [message |-> AgentMessage(text, calls, results),
   toolCalls |-> calls, toolResults |-> results]

\* (a loop that compares the iteration with > instead of >=)
IsExhaustedPastCeiling(f) ==
  f.iterations > MAX_ITERATIONS /\ ~Truthy(f.finalText)

\* (a loop that forgets the iteration test)
IsExhaustedAnyIteration(f) == ~Truthy(f.finalText)

\* (a loop that gives up at the ceiling whatever the last response was)
IsExhaustedAtCeiling(f) == f.iterations >= MAX_ITERATIONS

\* after the loop: the exhaustion message, then the return
IsExhausted(f) == f.iterations >= MAX_ITERATIONS /\ ~Truthy(f.finalText)

\* (a loop that returns the exhaustion message without recording it)
FinishNotRecording(f) ==
  LET text == IF IsExhausted(f)
                THEN buildExhaustionMessage(f.allToolResults, f.allToolCalls)
                ELSE f.finalText
  IN  [f EXCEPT !.finalText = text,
                !.returned = AgentRunResult(text, f.allToolCalls, f.allToolResults),
                !.status = "returned", !.pc = "idle"]

Finish(f) ==
  LET text == IF IsExhausted(f)
                THEN buildExhaustionMessage(f.allToolResults, f.allToolCalls)
                ELSE f.finalText
      msgs == IF IsExhausted(f)
                THEN Append(f.messages, AssistantResponse(text))
                ELSE f.messages
  IN  [f EXCEPT !.finalText = text, !.messages = msgs,
                !.returned = AgentRunResult(text, f.allToolCalls, f.allToolResults),
                !.status = "returned", !.pc = "idle"]

\* one more iteration: the call of client.generate, where chat() suspends
CallGenerate(f) ==
  LET n == f.iterations + 1
  IN  [f EXCEPT !.iterations = n,
                !.sent = [messages |-> f.messages,
                          tools |-> ToolsForThisIteration(n),
                          systemInstruction |-> buildSystemInstruction(n),
                          iteration |-> n],
                !.genCalls = @ + 1,
                !.pc = "generate"]

LoopHead(f) ==
  IF f.iterations < MAX_ITERATIONS THEN CallGenerate(f) ELSE Finish(f)

\* the two history messages of one batch
\* (a loop that records the results before the calls)
PushBatchResultsFirst(msgs, calls, results) ==
  Append(Append(msgs, ToolResultsMessage(results)), ToolCallsMessage(calls))

\* (a loop that keeps only the latest batch in the history)
PushBatchLatestOnly(msgs, calls, results) ==
  LET IsPlain(m) == m.type \notin {"tool_calls", "tool_results"}
  IN  Append(Append(SelectSeq(msgs, IsPlain), ToolCallsMessage(calls)),
             ToolResultsMessage(results))

PushBatch(msgs, calls, results) ==
  Append(Append(msgs, ToolCallsMessage(calls)), ToolResultsMessage(results))

AfterBatch(f) ==
  LoopHead([f EXCEPT !.messages =
              PushBatch(f.messages, f.response.toolCalls, f.toolResults)])

\* the result of one invocation joins both result lists
\* (a loop that keeps only the results of the invocations that succeeded)
PushResultUnlessError(f, toolResult) ==
  IF "error" \in DOMAIN toolResult
    THEN [f EXCEPT !.events = Append(@, <<"ret", f.tc>>)]
    ELSE [f EXCEPT !.allToolResults = Append(@, toolResult),
                   !.toolResults = Append(@, toolResult),
                   !.events = Append(@, <<"ret", f.tc>>)]

PushResult(f, toolResult) ==
  [f EXCEPT !.allToolResults = Append(@, toolResult),
            !.toolResults = Append(@, toolResult),
            !.events = Append(@, <<"ret", f.tc>>)]

\* (a for loop that steps over every second invocation)
NextIndexSkipping(i) == i + 2

NextIndex(i) == i + 1

\* (a loop that records the invocations of a batch before it runs them, and
\* the results once they are all in)
RECURSIVE ForLoopRecordingCallsFirst(_)
ForLoopRecordingCallsFirst(f) ==
  IF f.tc > Len(f.response.toolCalls)
    THEN LoopHead([f EXCEPT !.messages =
                     Append(@, ToolResultsMessage(f.toolResults))])
  ELSE LET call == f.response.toolCalls[f.tc]
           g == [f EXCEPT !.allToolCalls = Append(@, call),
                          !.events = Append(@, <<"call", f.tc>>),
                          !.messages =
                            IF f.tc = 1
                              THEN Append(@, ToolCallsMessage(f.response.toolCalls))
                              ELSE @]
       IN  IF call.name \notin DOMAIN toolRegistry
             THEN ForLoopRecordingCallsFirst(
                    [PushResult(g, UnknownToolResult(call.name))
                       EXCEPT !.tc = NextIndex(f.tc)])
             ELSE [g EXCEPT !.events = Append(@, <<"start", f.tc>>),
                            !.pc = "handler"]

\* the for loop over response.toolCalls from index f.tc on, up to the next
\* handler it has to wait for (executeTool for an unknown tool returns
\* without waiting for anything, so the loop runs on)
RECURSIVE ForLoop(_)
ForLoop(f) ==
  IF f.tc > Len(f.response.toolCalls) THEN AfterBatch(f)
  ELSE LET call == f.response.toolCalls[f.tc]
           g == [f EXCEPT !.allToolCalls = Append(@, call),
                          !.events = Append(@, <<"call", f.tc>>)]
       IN  IF call.name \notin DOMAIN toolRegistry
             THEN ForLoop([PushResult(g, UnknownToolResult(call.name))
                             EXCEPT !.tc = NextIndex(f.tc)])
             ELSE [g EXCEPT !.events = Append(@, <<"start", f.tc>>),
                            !.pc = "handler"]

HasToolCalls(r) == "toolCalls" \in DOMAIN r /\ Len(r.toolCalls) > 0

\* (a loop that records the final text in the history even when it is empty)
TextBranchAlwaysPushing(f) ==
  LET text == IF f.response.text \in {Null, Undefined} THEN "" ELSE f.response.text
  IN  Finish([f EXCEPT !.finalText = text,
                       !.messages = Append(@, AssistantResponse(text))])

\* the else branch: a text response ends the loop
TextBranch(f) ==
  LET text == IF f.response.text \in {Null, Undefined} THEN "" ELSE f.response.text
      msgs == IF Truthy(text)
                THEN Append(f.messages, AssistantResponse(text))
                ELSE f.messages
  IN  Finish([f EXCEPT !.finalText = text, !.messages = msgs])

\* (a loop that looks at the text first)
OnResponseTextFirst(f) ==
  IF Truthy(f.response.text)
    THEN TextBranch([f EXCEPT !.events = <<>>])
  ELSE IF HasToolCalls(f.response)
    THEN ForLoop([f EXCEPT !.toolResults = <<>>, !.tc = 1, !.events = <<>>])
    ELSE TextBranch([f EXCEPT !.events = <<>>])

OnResponse(f) ==
  IF HasToolCalls(f.response)
    THEN ForLoop([f EXCEPT !.toolResults = <<>>, !.tc = 1, !.events = <<>>])
    ELSE TextBranch([f EXCEPT !.events = <<>>])

\* ---------------------------------------------------------------- actions
\* buildExhaustionMessage not applied on its own
ExhaustIdle ==
  /\ outcomes = <<>>
  /\ called = <<>>
  /\ exhaustion = Null

\* the chat drawer as it is mounted: useState([]), useState(false),
\* useState(""), and the first render
DrawerIdle ==
  /\ uiMessages = <<>>
  /\ isTyping = FALSE
  /\ draft = ""
  /\ rendered = [disabled |-> FALSE, showEmptyState |-> TRUE]
  /\ chats = <<>>

\* AtriusMap as the module is loaded: no getInstance call made
NoInstance == [none |-> TRUE]
NoPromise == [none |-> TRUE]

SingletonIdle ==
  /\ instance = NoInstance
  /\ initPromise = NoPromise
  /\ newMapCalls = <<>>
  /\ callers = <<>>

\* nothing under way next to the Agent
AppIdle ==
  /\ ExhaustIdle
  /\ clears = 0
  /\ DrawerIdle
  /\ SingletonIdle

\* no generate call made on the client on its own, nothing filtered
WireIdle ==
  /\ input = <<>>
  /\ offered = <<>>
  /\ shown = NoArray
  /\ gpc = "idle"
  /\ retryCount = 0
  /\ requests = <<>>
  /\ fetched = <<>>
  /\ bodies = <<>>
  /\ answer = NoResult

Init ==
  /\ messages = <<>>
  /\ tools = <<search, getPOIDetails, getBuildingsAndLevels, showPOI,
               showDirections>>
  /\ toolRegistry = MapOfTools(tools)
  /\ pc = "idle"
  /\ iterations = 0
  /\ allToolCalls = <<>>
  /\ allToolResults = <<>>
  /\ finalText = ""
  /\ response = NoResponse
  /\ toolResults = <<>>
  /\ tc = 1
  /\ returned = NoResult
  /\ status = "new"
  /\ sent = NothingSent
  /\ genCalls = 0
  /\ events = <<>>
  /\ before = <<>>
  /\ said = Null
  /\ replies = <<>>
  /\ usual \in UsualInvocations
  /\ odd = 0
  /\ turns = 0
  /\ rounds = 0
  /\ pinned = NoPin
  /\ given = 1
  /\ instruction = Null
  /\ other = NewAgent
  /\ otherTurns = 0
  /\ held = NoArray
  /\ edits = 0
  /\ WireIdle
  /\ AppIdle

\* chat(userMessage) on an Agent, up to its first generate call
BeginTurn(f, userMessage) ==
  LoopHead([f EXCEPT !.messages = Append(@, UserInput(userMessage)),
                     !.allToolCalls = <<>>, !.allToolResults = <<>>,
                     !.finalText = "", !.iterations = 0,
                     !.response = NoResponse, !.toolResults = <<>>, !.tc = 1,
                     !.returned = NoResult, !.status = "running",
                     !.genCalls = 0, !.events = <<>>])

\* how unusual a chat() call is
ChatOddness(userMessage) ==
  (IF turns = 0 THEN 0 ELSE 2) + (IF userMessage = UsualUserText THEN 0 ELSE 1)

\* (an agent whose lists of invocations and results outlive the turn)
ChatKeepingLists(userMessage) ==
  /\ pc = "idle"
  /\ odd + ChatOddness(userMessage) <= MaxOdd
  /\ odd' = odd + ChatOddness(userMessage)
  /\ turns' = turns + 1
  /\ before' = messages
  /\ said' = userMessage
  /\ Becomes(LoopHead(
       [Cur EXCEPT !.messages = Append(@, UserInput(userMessage)),
                   !.finalText = "", !.iterations = 0,
                   !.response = NoResponse, !.toolResults = <<>>, !.tc = 1,
                   !.returned = NoResult, !.status = "running",
                   !.genCalls = 0, !.events = <<>>]))
  /\ UNCHANGED <<tools, toolRegistry, replies, usual, rounds, outside>>

\* chat(userMessage) up to its first generate call
Chat(userMessage) ==
  /\ pc = "idle"
  /\ odd + ChatOddness(userMessage) <= MaxOdd
  /\ odd' = odd + ChatOddness(userMessage)
  /\ turns' = turns + 1
  /\ before' = messages
  /\ said' = userMessage
  /\ Becomes(BeginTurn(Cur, userMessage))
  /\ UNCHANGED <<tools, toolRegistry, replies, usual, rounds, outside>>

\* how unusual a response is
Oddness(r) ==
  IF HasToolCalls(r)
    THEN 2 * (Cardinality({i \in 1..Len(r.toolCalls) : r.toolCalls[i] # usual})
                + (Len(r.toolCalls) - 1)
                + (IF r.text = Null THEN 0 ELSE 1))
    ELSE 0

Resume(r) ==
  /\ pc = "generate"
  /\ odd + Oddness(r) <= MaxOdd
  /\ odd' = odd + Oddness(r)
  /\ Becomes(OnResponse([Cur EXCEPT !.response = r]))
  /\ replies' = (IF HasToolCalls(r) THEN Append(replies, r.toolCalls)
                                    ELSE replies)
  /\ UNCHANGED <<tools, toolRegistry, before, said, usual, turns, outside>>

\* generate resolves with text only (toolCalls null or empty)
GenerateText ==
  \E t \in Texts :
    /\ \/ Resume([text |-> t])
       \/ Resume([text |-> t, toolCalls |-> <<>>])
    /\ UNCHANGED rounds

\* generate resolves with tool calls (and possibly a text)
GenerateToolCalls ==
  /\ rounds < MaxRounds
  /\ rounds' = rounds + 1
  /\ \E t \in Texts, n \in 1..((MaxOdd - odd) \div 2 + 1) :
       \E b \in [1..n -> Invocations] : Resume([text |-> t, toolCalls |-> b])

\* (a loop that catches the provider's error and answers with an apology)
GenerateThrowsCaught ==
  /\ pc = "generate"
  /\ pc' = "idle"
  /\ status' = "thrown"
  /\ messages' = Append(messages, AssistantResponse("Something went wrong."))
  /\ UNCHANGED <<tools, toolRegistry, iterations, allToolCalls,
                 allToolResults, finalText, response, toolResults, tc,
                 returned, sent, genCalls, events, before, said, replies, usual,
                 odd, turns, rounds, outside>>

\* generate rejects: chat() rejects with the same error
GenerateThrows ==
  /\ pc = "generate"
  /\ pc' = "idle"
  /\ status' = "thrown"
  /\ UNCHANGED <<messages, tools, toolRegistry, iterations, allToolCalls,
                 allToolResults, finalText, response, toolResults, tc,
                 returned, sent, genCalls, events, before, said, replies, usual,
                 odd, turns, rounds, outside>>

\* the rest of the for loop once the handler under way has settled
Settle(f) ==
  LET call == f.response.toolCalls[f.tc]
      g == [f EXCEPT !.events = Append(@, <<"end", f.tc>>)]
      h == PushResult(g, SettledResult(call.name, action(call.name, call.args)))
  IN  ForLoop([h EXCEPT !.tc = NextIndex(f.tc)])

\* the handler of the invocation under way settles
HandlerSettles ==
  /\ pc = "handler"
  /\ Becomes(Settle(Cur))
  /\ UNCHANGED <<tools, toolRegistry, before, said, replies, usual, odd, turns,
                 rounds, outside>>

\* (a clearHistory() that also empties the tool registry)
ClearHistoryDroppingRegistry ==
  /\ pc = "idle"
  /\ odd < MaxOdd
  /\ odd' = odd + 1
  /\ messages' = <<>>
  /\ toolRegistry' = MapOfTools(<<>>)
  /\ iterations' = 0
  /\ allToolCalls' = <<>>
  /\ allToolResults' = <<>>
  /\ finalText' = ""
  /\ response' = NoResponse
  /\ toolResults' = <<>>
  /\ tc' = 1
  /\ returned' = NoResult
  /\ status' = "new"
  /\ sent' = NothingSent
  /\ genCalls' = 0
  /\ events' = <<>>
  /\ before' = <<>>
  /\ said' = Null
  /\ replies' = <<>>
  /\ UNCHANGED <<tools, pc, usual, turns, rounds, outside>>

\* clearHistory(), called between two turns: the history is a new empty
\* array, and nothing is left of the turns before
ClearHistory ==
  /\ pc = "idle"
  /\ odd < MaxOdd
  /\ odd' = odd + 1
  /\ messages' = <<>>
  /\ iterations' = 0
  /\ allToolCalls' = <<>>
  /\ allToolResults' = <<>>
  /\ finalText' = ""
  /\ response' = NoResponse
  /\ toolResults' = <<>>
  /\ tc' = 1
  /\ returned' = NoResult
  /\ status' = "new"
  /\ sent' = NothingSent
  /\ genCalls' = 0
  /\ events' = <<>>
  /\ before' = <<>>
  /\ said' = Null
  /\ replies' = <<>>
  /\ UNCHANGED <<tools, toolRegistry, pc, usual, turns, rounds, outside>>

Next ==
  \/ \E u \in UserTexts : Chat(u)
  \/ GenerateText
  \/ GenerateToolCalls
  \/ GenerateThrows
  \/ HandlerSettles
  \/ ClearHistory

Spec == Init /\ [][Next]_vars

\* ------------------------------------- buildSystemInstruction on its own
\* The function applied to an iteration number, for every pinned location.
PromptInit ==
  /\ messages = <<>>
  /\ tools = <<search, getPOIDetails, getBuildingsAndLevels, showPOI,
               showDirections>>
  /\ toolRegistry = MapOfTools(tools)
  /\ pc = "idle"
  /\ iterations = 0
  /\ allToolCalls = <<>>
  /\ allToolResults = <<>>
  /\ finalText = ""
  /\ response = NoResponse
  /\ toolResults = <<>>
  /\ tc = 1
  /\ returned = NoResult
  /\ status = "new"
  /\ sent = NothingSent
  /\ genCalls = 0
  /\ events = <<>>
  /\ before = <<>>
  /\ said = Null
  /\ replies = <<>>
  /\ usual = [name |-> "search", args |-> "ok"]
  /\ odd = 0
  /\ turns = 0
  /\ rounds = 0
  /\ pinned \in {NoPin} \cup PinnedLocations
  /\ given \in 0..MaxGiven
  /\ instruction = Null
  /\ other = NewAgent
  /\ otherTurns = 0
  /\ held = NoArray
  /\ edits = 0
  /\ WireIdle
  /\ AppIdle

BuildInstruction ==
  /\ instruction' = buildSystemInstruction(given)
  /\ UNCHANGED <<messages, tools, toolRegistry, pc, iterations, allToolCalls,
                 allToolResults, finalText, response, toolResults, tc,
                 returned, status, sent, genCalls, events, before, said, replies,
                 usual, odd, turns, rounds, pinned, given, other, otherTurns,
                 held, edits, wire, app>>

PromptNext == BuildInstruction

PromptSpec == PromptInit /\ [][PromptNext]_vars

\* ------------------------------------------------------------- two Agents
\* A second Agent instance next to the first: its own fields and its own
\* chat() calls, the same five tools.  Its provider answers with a text or
\* with one invocation of its own; the first Agent's provider is the usual
\* one throughout.
OtherUserText == "Query from agent 2"
OtherInvocation == [name |-> "search", args |-> "void"]

\* (a second Agent whose history is the array of the first)
AgentTwoSharingHistory == [other EXCEPT !.messages = messages]

AgentTwo == other

TwoInit ==
  /\ messages = <<>>
  /\ tools = <<search, getPOIDetails, getBuildingsAndLevels, showPOI,
               showDirections>>
  /\ toolRegistry = MapOfTools(tools)
  /\ pc = "idle"
  /\ iterations = 0
  /\ allToolCalls = <<>>
  /\ allToolResults = <<>>
  /\ finalText = ""
  /\ response = NoResponse
  /\ toolResults = <<>>
  /\ tc = 1
  /\ returned = NoResult
  /\ status = "new"
  /\ sent = NothingSent
  /\ genCalls = 0
  /\ events = <<>>
  /\ before = <<>>
  /\ said = Null
  /\ replies = <<>>
  /\ usual = [name |-> "search", args |-> "ok"]
  /\ odd = MaxOdd
  /\ turns = 0
  /\ rounds = 0
  /\ pinned = NoPin
  /\ given = 1
  /\ instruction = Null
  /\ other = NewAgent
  /\ otherTurns = 0
  /\ held = NoArray
  /\ edits = 0
  /\ WireIdle
  /\ AppIdle

OtherChat ==
  /\ AgentTwo.pc = "idle"
  /\ otherTurns < MaxOtherTurns
  /\ otherTurns' = otherTurns + 1
  /\ other' = BeginTurn(AgentTwo, OtherUserText)
  /\ UNCHANGED <<first, pinned, given, instruction, held, edits, wire, app>>

OtherGenerateText ==
  /\ AgentTwo.pc = "generate"
  /\ \E t \in Texts : other' = OnResponse([AgentTwo EXCEPT !.response = [text |-> t]])
  /\ UNCHANGED <<first, pinned, given, instruction, otherTurns, held, edits, wire, app>>

OtherGenerateToolCalls ==
  /\ AgentTwo.pc = "generate"
  /\ other' = OnResponse([AgentTwo EXCEPT !.response =
                            [text |-> Null, toolCalls |-> <<OtherInvocation>>]])
  /\ UNCHANGED <<first, pinned, given, instruction, otherTurns, held, edits, wire, app>>

OtherGenerateThrows ==
  /\ AgentTwo.pc = "generate"
  /\ other' = [AgentTwo EXCEPT !.pc = "idle", !.status = "thrown"]
  /\ UNCHANGED <<first, pinned, given, instruction, otherTurns, held, edits, wire, app>>

OtherHandlerSettles ==
  /\ AgentTwo.pc = "handler"
  /\ other' = Settle(AgentTwo)
  /\ UNCHANGED <<first, pinned, given, instruction, otherTurns, held, edits, wire, app>>

AgentOneStep ==
  \/ \E u \in UserTexts : Chat(u)
  \/ GenerateText
  \/ GenerateToolCalls
  \/ GenerateThrows
  \/ HandlerSettles

AgentTwoStep ==
  \/ OtherChat
  \/ OtherGenerateText
  \/ OtherGenerateToolCalls
  \/ OtherGenerateThrows
  \/ OtherHandlerSettles

TwoNext == AgentOneStep \/ AgentTwoStep

TwoSpec == TwoInit /\ [][TwoNext]_vars

\* ------------------------------------------------ getHistory() and its caller
\* Arrays have identity: the caller holds either the Agent's own array (what
\* is in it is then what is in messages) or an array of its own.
\* (a getHistory() that hands out this.messages itself)
getHistoryByReference == [array |-> "history", items |-> <<>>]

getHistory == [array |-> "copy", items |-> messages]

HeldItems ==
  IF held = NoArray THEN <<>>
  ELSE IF held.array = "history" THEN messages
  ELSE held.items

Reverse(s) == [i \in 1..Len(s) |-> s[Len(s) + 1 - i]]

HistoryInit ==
  /\ messages = <<>>
  /\ tools = <<search, getPOIDetails, getBuildingsAndLevels, showPOI,
               showDirections>>
  /\ toolRegistry = MapOfTools(tools)
  /\ pc = "idle"
  /\ iterations = 0
  /\ allToolCalls = <<>>
  /\ allToolResults = <<>>
  /\ finalText = ""
  /\ response = NoResponse
  /\ toolResults = <<>>
  /\ tc = 1
  /\ returned = NoResult
  /\ status = "new"
  /\ sent = NothingSent
  /\ genCalls = 0
  /\ events = <<>>
  /\ before = <<>>
  /\ said = Null
  /\ replies = <<>>
  /\ usual = [name |-> "search", args |-> "ok"]
  /\ odd = MaxOdd
  /\ turns = 0
  /\ rounds = 0
  /\ pinned = NoPin
  /\ given = 1
  /\ instruction = Null
  /\ other = NewAgent
  /\ otherTurns = 0
  /\ held = NoArray
  /\ edits = 0
  /\ WireIdle
  /\ AppIdle

\* const history = agent.getHistory(), at any moment
GetHistory ==
  /\ held' = getHistory
  /\ UNCHANGED <<first, pinned, given, instruction, other, otherTurns, edits, wire, app>>

\* the caller changes the array it holds into one with the items new
EditHeld(new) ==
  /\ held # NoArray
  /\ edits < MaxEdits
  /\ edits' = edits + 1
  /\ IF held.array = "history"
       THEN messages' = new /\ held' = held
       ELSE messages' = messages /\ held' = [held EXCEPT !.items = new]
  /\ UNCHANGED <<locals, pinned, given, instruction, other, otherTurns, wire, app>>

PushHeld == EditHeld(Append(HeldItems, UserInput("pushed by the caller")))

PopHeld ==
  /\ Len(HeldItems) > 0
  /\ EditHeld(SubSeq(HeldItems, 1, Len(HeldItems) - 1))

ReverseHeld == EditHeld(Reverse(HeldItems))

CallerStep == PushHeld \/ PopHeld \/ ReverseHeld

HistoryNext == AgentOneStep \/ GetHistory \/ CallerStep

HistorySpec == HistoryInit /\ [][HistoryNext]_vars

\* --------------------------------------------- an Agent built with any tools
\* The tool list as an input of the construction: any list of up to MaxTools
\* tools, among them a second tool named "search".
searchAgain == Tool("search", "Find POIs across the entire venue.")

ToolLists ==
  UNION {[1..n -> {search, searchAgain, showPOI}] : n \in 1..MaxTools}

RegistryInit ==
  /\ messages = <<>>
  /\ tools \in ToolLists
  /\ toolRegistry = MapOfTools(tools)
  /\ pc = "idle"
  /\ iterations = 0
  /\ allToolCalls = <<>>
  /\ allToolResults = <<>>
  /\ finalText = ""
  /\ response = NoResponse
  /\ toolResults = <<>>
  /\ tc = 1
  /\ returned = NoResult
  /\ status = "new"
  /\ sent = NothingSent
  /\ genCalls = 0
  /\ events = <<>>
  /\ before = <<>>
  /\ said = Null
  /\ replies = <<>>
  /\ usual = [name |-> "search", args |-> "ok"]
  /\ odd = MaxOdd
  /\ turns = 0
  /\ rounds = 0
  /\ pinned = NoPin
  /\ given = 1
  /\ instruction = Null
  /\ other = NewAgent
  /\ otherTurns = 0
  /\ held = NoArray
  /\ edits = 0
  /\ WireIdle
  /\ AppIdle

RegistryNext == AgentOneStep

RegistrySpec == RegistryInit /\ [][RegistryNext]_vars

\* ------------------------------------------- the Gemini client on its own
\* One generate(input, offered, instruction) call on a GeminiClient, with the
\* network and the provider as the environment: fetch rejects or resolves
\* with a Response, and response.json() rejects or resolves with a body.
\* The history given is any list of messages of the four types, with the
\* results the executor gives for a success, a failure and a failure whose
\* Error has an empty message.
\* (The body of a Response that is not ok is taken to be readable.)
SampleMessages ==
  {UserInput(UsualUserText),
   AssistantResponse("Found it."),
   ToolCallsMessage(<<SignedInvocation, [name |-> "search", args |-> "zero"]>>),
   ToolCallsMessage(<<>>),
   ToolResultsMessage(<<SuccessResult("search", Obj),
                        FailureResult("search", action("search", "throw")),
                        FailureResult("search", action("search", "throwEmpty"))>>),
   ToolResultsMessage(<<>>)}

MessageLists == UNION {[1..n -> SampleMessages] : n \in 0..MaxMessages}

PartKinds ==
  {[text |-> "Found it."],
   [text |-> ""],
   [functionCall |-> [name |-> "search", args |-> "ok"]],
   [functionCall |-> [name |-> "search", args |-> "ok"],
    thoughtSignature |-> "sig-A"],
   [inlineData |-> Obj]}

PartLists == UNION {[1..n -> PartKinds] : n \in 0..MaxParts}

MalformedBodies ==
  {[candidates |-> <<[finishReason |-> "MALFORMED_FUNCTION_CALL"]>>],
   [candidates |->
      <<[finishReason |-> "MALFORMED_FUNCTION_CALL",
         content |-> [role |-> "model",
                      parts |-> <<[functionCall |->
                                     [name |-> "search", args |-> "ok"]]>>]]>>]}

Bodies ==
  {[candidates |-> <<>>]}
    \cup {[candidates |-> <<[finishReason |-> "STOP",
                             content |-> [role |-> "model", parts |-> p]]>>] :
            p \in PartLists}
    \cup MalformedBodies

OkResponse == [ok |-> TRUE, status |-> 200, statusText |-> "OK"]

ErrorResponses ==
  {[ok |-> FALSE, status |-> 401, statusText |-> "Unauthorized",
    text |-> "Invalid API key"],
   [ok |-> FALSE, status |-> 429, statusText |-> "Too Many Requests",
    text |-> "Rate limit exceeded"],
   [ok |-> FALSE, status |-> 503, statusText |-> "Service Unavailable",
    text |-> "overloaded"]}

NetworkError == [name |-> "Error", message |-> "Network error"]
JsonError == [name |-> "Error", message |-> "Invalid JSON"]

Return(value) == [kind |-> "return", value |-> value]
Throw(error) == [kind |-> "throw", error |-> error]

GeminiInit ==
  /\ messages = <<>>
  /\ tools = <<search, getPOIDetails, getBuildingsAndLevels, showPOI,
               showDirections>>
  /\ toolRegistry = MapOfTools(tools)
  /\ pc = "idle"
  /\ iterations = 0
  /\ allToolCalls = <<>>
  /\ allToolResults = <<>>
  /\ finalText = ""
  /\ response = NoResponse
  /\ toolResults = <<>>
  /\ tc = 1
  /\ returned = NoResult
  /\ status = "new"
  /\ sent = NothingSent
  /\ genCalls = 0
  /\ events = <<>>
  /\ before = <<>>
  /\ said = Null
  /\ replies = <<>>
  /\ usual = [name |-> "search", args |-> "ok"]
  /\ odd = MaxOdd
  /\ turns = 0
  /\ rounds = 0
  /\ pinned = NoPin
  /\ given = 1
  /\ instruction \in {"", BASE_SYSTEM_INSTRUCTION}
  /\ other = NewAgent
  /\ otherTurns = 0
  /\ held = NoArray
  /\ edits = 0
  /\ input \in MessageLists
  /\ offered \in {<<>>, tools}
  /\ shown = NoArray
  /\ gpc = "idle"
  /\ retryCount = 0
  /\ requests = <<>>
  /\ fetched = <<>>
  /\ bodies = <<>>
  /\ answer = NoResult
  /\ AppIdle

\* what no step of the client touches
apart == <<first, pinned, given, instruction, other, otherTurns, held, edits,
           input, offered, shown, app>>

\* generateWithRetry up to its fetch: the request is built and posted
Post ==
  /\ requests' = Append(requests, buildRequest(input, offered, instruction))
  /\ gpc' = "fetch"

\* generate(input, offered, instruction)
Generate ==
  /\ gpc = "idle"
  /\ retryCount' = 0
  /\ Post
  /\ UNCHANGED <<fetched, bodies, answer, apart>>

\* fetch rejects: the error is logged and thrown on
FetchRejects ==
  /\ gpc = "fetch"
  /\ answer' = Throw(NetworkError)
  /\ gpc' = "done"
  /\ UNCHANGED <<retryCount, requests, fetched, bodies, apart>>

\* (a client that posts the request again after a 503, once)
FetchResolvesRetrying ==
  /\ gpc = "fetch"
  /\ \E res \in {OkResponse} \cup ErrorResponses :
       /\ fetched' = Append(fetched, res)
       /\ IF res.ok
            THEN gpc' = "json" /\ UNCHANGED <<retryCount, requests, answer>>
          ELSE IF res.status = 503 /\ retryCount = 0
            THEN retryCount' = 1 /\ Post /\ UNCHANGED answer
          ELSE /\ answer' = Throw(GeminiError(res))
               /\ gpc' = "done"
               /\ UNCHANGED <<retryCount, requests>>
  /\ UNCHANGED <<bodies, apart>>

\* fetch resolves with a Response: not ok is a GeminiError, ok goes on to
\* response.json()
FetchResolves ==
  /\ gpc = "fetch"
  /\ \E res \in {OkResponse} \cup ErrorResponses :
       /\ fetched' = Append(fetched, res)
       /\ IF res.ok
            THEN gpc' = "json" /\ UNCHANGED answer
            ELSE answer' = Throw(GeminiError(res)) /\ gpc' = "done"
  /\ UNCHANGED <<retryCount, requests, bodies, apart>>

\* response.json() rejects: the error is logged and thrown on
JsonRejects ==
  /\ gpc = "json"
  /\ answer' = Throw(JsonError)
  /\ gpc' = "done"
  /\ UNCHANGED <<retryCount, requests, fetched, bodies, apart>>

\* (a client that retries a malformed function call up to two times)
JsonResolvesRetryingTwice ==
  /\ gpc = "json"
  /\ \E geminiResponse \in Bodies :
       /\ bodies' = Append(bodies, geminiResponse)
       /\ IF finishReasonOf(geminiResponse) = "MALFORMED_FUNCTION_CALL"
             /\ retryCount < 2
            THEN retryCount' = retryCount + 1 /\ Post /\ UNCHANGED answer
            ELSE /\ answer' = Return(parseResponse(geminiResponse))
                 /\ gpc' = "done"
                 /\ UNCHANGED <<retryCount, requests>>
  /\ UNCHANGED <<fetched, apart>>

\* response.json() resolves with the body: a malformed function call is
\* tried again when this was the first try, anything else is parsed
JsonResolves ==
  /\ gpc = "json"
  /\ \E geminiResponse \in Bodies :
       /\ bodies' = Append(bodies, geminiResponse)
       /\ IF finishReasonOf(geminiResponse) = "MALFORMED_FUNCTION_CALL"
             /\ retryCount = 0
            THEN retryCount' = retryCount + 1 /\ Post /\ UNCHANGED answer
            ELSE /\ answer' = Return(parseResponse(geminiResponse))
                 /\ gpc' = "done"
                 /\ UNCHANGED <<retryCount, requests>>
  /\ UNCHANGED <<fetched, apart>>

GeminiNext ==
  \/ Generate
  \/ FetchRejects
  \/ FetchResolves
  \/ JsonRejects
  \/ JsonResolves

GeminiSpec == GeminiInit /\ [][GeminiNext]_vars

\* ------------------------------------------------------ the message filter
\* (a test that takes a tool message without content for a plain message)
isToolMessageWithContent(msg) ==
  msg.type \in {"tool_calls", "tool_results"} /\ Len(msg.content) > 0

isToolMessage(msg) == msg.type = "tool_calls" \/ msg.type = "tool_results"

\* messages.filter(...): a new array
filterToolMessages(msgs) ==
  LET keep(msg) == ~isToolMessage(msg)
  IN  SelectSeq(msgs, keep)

FilterLists == UNION {[1..n -> SampleMessages] : n \in 0..MaxFiltered}

FilterInit ==
  /\ messages = <<>>
  /\ tools = <<search, getPOIDetails, getBuildingsAndLevels, showPOI,
               showDirections>>
  /\ toolRegistry = MapOfTools(tools)
  /\ pc = "idle"
  /\ iterations = 0
  /\ allToolCalls = <<>>
  /\ allToolResults = <<>>
  /\ finalText = ""
  /\ response = NoResponse
  /\ toolResults = <<>>
  /\ tc = 1
  /\ returned = NoResult
  /\ status = "new"
  /\ sent = NothingSent
  /\ genCalls = 0
  /\ events = <<>>
  /\ before = <<>>
  /\ said = Null
  /\ replies = <<>>
  /\ usual = [name |-> "search", args |-> "ok"]
  /\ odd = MaxOdd
  /\ turns = 0
  /\ rounds = 0
  /\ pinned = NoPin
  /\ given = 1
  /\ instruction = Null
  /\ other = NewAgent
  /\ otherTurns = 0
  /\ held = NoArray
  /\ edits = 0
  /\ input \in FilterLists
  /\ offered = <<>>
  /\ shown = NoArray
  /\ gpc = "idle"
  /\ retryCount = 0
  /\ requests = <<>>
  /\ fetched = <<>>
  /\ bodies = <<>>
  /\ answer = NoResult
  /\ AppIdle

\* const shown = filterToolMessages(input)
Filter ==
  /\ shown = NoArray
  /\ shown' = [of |-> "input", items |-> filterToolMessages(input)]
  /\ UNCHANGED <<first, pinned, given, instruction, other, otherTurns, held,
                 edits, input, offered, gpc, retryCount, requests, fetched,
                 bodies, answer, app>>

\* filterToolMessages(shown): the filter applied to its own result
FilterAgain ==
  /\ shown # NoArray
  /\ shown.of = "input"
  /\ shown' = [of |-> "shown", items |-> filterToolMessages(shown.items)]
  /\ UNCHANGED <<first, pinned, given, instruction, other, otherTurns, held,
                 edits, input, offered, gpc, retryCount, requests, fetched,
                 bodies, answer, app>>

FilterNext == Filter \/ FilterAgain

FilterSpec == FilterInit /\ [][FilterNext]_vars

\* ------------------------------------ buildExhaustionMessage on its own
\* The Agent as new Agent() leaves it and nothing else under way: the state
\* the parts of the application are looked at from, one at a time.
AgentAsBuilt ==
  /\ messages = <<>>
  /\ tools = <<search, getPOIDetails, getBuildingsAndLevels, showPOI,
               showDirections>>
  /\ toolRegistry = MapOfTools(tools)
  /\ pc = "idle"
  /\ iterations = 0
  /\ allToolCalls = <<>>
  /\ allToolResults = <<>>
  /\ finalText = ""
  /\ response = NoResponse
  /\ toolResults = <<>>
  /\ tc = 1
  /\ returned = NoResult
  /\ status = "new"
  /\ sent = NothingSent
  /\ genCalls = 0
  /\ events = <<>>
  /\ before = <<>>
  /\ said = Null
  /\ replies = <<>>
  /\ usual = [name |-> "search", args |-> "ok"]
  /\ odd = MaxOdd
  /\ turns = 0
  /\ rounds = 0
  /\ pinned = NoPin
  /\ given = 1
  /\ instruction = Null
  /\ other = NewAgent
  /\ otherTurns = 0
  /\ held = NoArray
  /\ edits = 0

\* The function applied to the two lists a turn may have gathered: any
\* list of invocations of "search" and of a tool that is not registered,
\* with the results the executor gives for them.
CallLists == UNION {[1..n -> Invocations] : n \in 0..MaxOutcomes}

ResultsOf(calls) ==
  [k \in 1..Len(calls) |->
     IF calls[k].name \in DOMAIN MapOfTools(tools)
       THEN SettledResult(calls[k].name, action(calls[k].name, calls[k].args))
       ELSE UnknownToolResult(calls[k].name)]

ExhaustInit ==
  /\ AgentAsBuilt
  /\ WireIdle
  /\ called \in CallLists
  /\ outcomes = ResultsOf(called)
  /\ exhaustion = Null
  /\ clears = 0
  /\ DrawerIdle
  /\ SingletonIdle

\* const finalText = this.buildExhaustionMessage(outcomes, called)
BuildExhaustion ==
  /\ exhaustion = Null
  /\ exhaustion' = buildExhaustionMessage(outcomes, called)
  /\ UNCHANGED <<first, pinned, given, instruction, other, otherTurns, held,
                 edits, wire, outcomes, called, clears, drawer, singleton>>

ExhaustNext == BuildExhaustion

ExhaustSpec == ExhaustInit /\ [][ExhaustNext]_vars

\* ------------------------------------------- callers that do not wait
\* Two chat() calls on the same Agent, the second made while the first is
\* under way or after it, and clearHistory() called at any moment.  Each
\* call has its own locals (those of the second are kept in other) and
\* both work on this.messages.  A call runs from one await to the next
\* without giving way; what is waiting resumes in any order.
Second == [other EXCEPT !.messages = messages]

SecondBecomes(f) ==
  /\ messages' = f.messages
  /\ other' = [f EXCEPT !.messages = <<>>]

ConcurrentInit ==
  /\ AgentAsBuilt
  /\ WireIdle
  /\ AppIdle

ChatAgain ==
  /\ Second.pc = "idle"
  /\ otherTurns = 0
  /\ otherTurns' = otherTurns + 1
  /\ SecondBecomes(BeginTurn(Second, OtherUserText))
  /\ UNCHANGED <<locals, pinned, given, instruction, held, edits, wire, app>>

AgainGenerateText ==
  /\ Second.pc = "generate"
  /\ \E t \in Texts :
       SecondBecomes(OnResponse([Second EXCEPT !.response = [text |-> t]]))
  /\ UNCHANGED <<locals, pinned, given, instruction, otherTurns, held, edits,
                 wire, app>>

AgainGenerateToolCalls ==
  /\ Second.pc = "generate"
  /\ Second.iterations <= MaxBatches
  /\ SecondBecomes(OnResponse([Second EXCEPT !.response =
                     [text |-> Null, toolCalls |-> <<OtherInvocation>>]]))
  /\ UNCHANGED <<locals, pinned, given, instruction, otherTurns, held, edits,
                 wire, app>>

AgainGenerateThrows ==
  /\ Second.pc = "generate"
  /\ other' = [other EXCEPT !.pc = "idle", !.status = "thrown"]
  /\ UNCHANGED <<first, pinned, given, instruction, otherTurns, held, edits,
                 wire, app>>

AgainHandlerSettles ==
  /\ Second.pc = "handler"
  /\ SecondBecomes(Settle(Second))
  /\ UNCHANGED <<locals, pinned, given, instruction, otherTurns, held, edits,
                 wire, app>>

\* clearHistory(), whatever the chat() calls are doing: this.messages is a
\* new empty array, the locals of the calls under way stay as they are
ClearHistoryAnyTime ==
  /\ clears < MaxClears
  /\ clears' = clears + 1
  /\ messages' = <<>>
  /\ UNCHANGED <<locals, pinned, given, instruction, other, otherTurns, held,
                 edits, wire, exhaust, drawer, singleton>>

FirstCallStep ==
  \/ Chat(UsualUserText)
  \/ GenerateText
  \/ (rounds < MaxBatches /\ GenerateToolCalls)
  \/ GenerateThrows
  \/ HandlerSettles

SecondCallStep ==
  \/ ChatAgain
  \/ AgainGenerateText
  \/ AgainGenerateToolCalls
  \/ AgainGenerateThrows
  \/ AgainHandlerSettles

ConcurrentNext == FirstCallStep \/ SecondCallStep \/ ClearHistoryAnyTime

ConcurrentSpec == ConcurrentInit /\ [][ConcurrentNext]_vars

\* ---------------------------------------------------------- the chat drawer
\* ChatDrawer with its ChatInput and ChatSuggestions, and the Agent of the
\* module as the chat() calls under way on it.  State is what the setters
\* were last given; rendered is what the latest render made of it (the
\* disabled prop of ChatInput, showEmptyState).  React renders again before
\* the next event once a handler of a click or a key has run, so that
\* render belongs to the handler's step; after an await it renders later.
RECURSIVE trimStart(_)
trimStart(str) ==
  IF Len(str) > 0 /\ SubSeq(str, 1, 1) = " "
    THEN trimStart(SubSeq(str, 2, Len(str)))
    ELSE str

RECURSIVE trimEnd(_)
trimEnd(str) ==
  IF Len(str) > 0 /\ SubSeq(str, Len(str), Len(str)) = " "
    THEN trimEnd(SubSeq(str, 1, Len(str) - 1))
    ELSE str

trim(str) == trimEnd(trimStart(str))

\* what the user may have in the textarea
Drafts == {"", "   ", "Where is gate B12?", "  Where is gate B12? "}

Suggestions ==
  {"Where can I get a snack?", "Get directions to my gate",
   "Find coffee shops nearby"}

\* how an agent.chat call may settle: with a result, or with an Error or
\* some other value thrown
ChatOutcomes ==
  {[kind |-> "return", content |-> "Found it."],
   [kind |-> "return", content |-> ""],
   [kind |-> "throw", isError |-> TRUE,
    message |-> "Gemini API error: 503 Service Unavailable"],
   [kind |-> "throw", isError |-> FALSE, message |-> Undefined]}

UiMessage(role, content) == [role |-> role, content |-> content]

errorAssistantMessage(err) ==
  UiMessage("assistant",
            "I'm sorry, I encountered an error: "
              \o (IF err.isError THEN err.message
                                 ELSE "An unexpected error occurred")
              \o ". Please try again.")

\* the render of ChatDrawer for a state
Render(msgs, typing) ==
  [disabled |-> typing, showEmptyState |-> Len(msgs) = 0 /\ ~typing]

DrawerInit ==
  /\ AgentAsBuilt
  /\ WireIdle
  /\ ExhaustIdle
  /\ clears = 0
  /\ DrawerIdle
  /\ SingletonIdle

Sends == Cardinality({i \in 1..Len(uiMessages) : uiMessages[i].role = "user"})

\* (a handler that calls the agent without saying that it is typing)
handleSendMessageNotTyping(content) ==
  /\ Sends < MaxSends
  /\ uiMessages' = Append(uiMessages, UiMessage("user", content))
  /\ isTyping' = isTyping
  /\ chats' = Append(chats, content)
  /\ rendered' = Render(uiMessages', isTyping')

\* handleSendMessage up to await agent.chat(content), and the render that
\* follows the event
handleSendMessage(content) ==
  /\ Sends < MaxSends
  /\ uiMessages' = Append(uiMessages, UiMessage("user", content))
  /\ isTyping' = TRUE
  /\ chats' = Append(chats, content)
  /\ rendered' = Render(uiMessages', isTyping')

\* the user types: the textarea takes it unless it is disabled
HandleChange ==
  /\ ~rendered.disabled
  /\ \E t \in Drafts : draft' = t
  /\ UNCHANGED <<uiMessages, isTyping, rendered, chats>>
  /\ UNCHANGED <<first, pinned, given, instruction, other, otherTurns, held,
                 edits, wire, exhaust, clears, singleton>>

\* ChatInput.handleSubmit, from the Enter key or the send button
HandleSubmit ==
  /\ LET trimmed == trim(draft)
     IN  IF trimmed # "" /\ ~rendered.disabled
           THEN handleSendMessage(trimmed) /\ draft' = ""
           ELSE UNCHANGED drawer
  /\ UNCHANGED <<first, pinned, given, instruction, other, otherTurns, held,
                 edits, wire, exhaust, clears, singleton>>

\* a click on one of the suggestions, which are there in the empty state
HandleSuggestionSelect ==
  /\ rendered.showEmptyState
  /\ \E suggestion \in Suggestions : handleSendMessage(suggestion)
  /\ UNCHANGED draft
  /\ UNCHANGED <<first, pinned, given, instruction, other, otherTurns, held,
                 edits, wire, exhaust, clears, singleton>>

Without(s, i) == SubSeq(s, 1, i - 1) \o SubSeq(s, i + 1, Len(s))

\* an agent.chat call settles and handleSendMessage runs on from its await:
\* the try or the catch block, then finally
ChatSettles ==
  /\ \E i \in 1..Len(chats), o \in ChatOutcomes :
       /\ chats' = Without(chats, i)
       /\ uiMessages' =
            Append(uiMessages,
                   IF o.kind = "return" THEN UiMessage("assistant", o.content)
                                        ELSE errorAssistantMessage(o))
  /\ isTyping' = FALSE
  /\ UNCHANGED <<draft, rendered>>
  /\ UNCHANGED <<first, pinned, given, instruction, other, otherTurns, held,
                 edits, wire, exhaust, clears, singleton>>

\* React renders the state set after an await
Rerender ==
  /\ rendered # Render(uiMessages, isTyping)
  /\ rendered' = Render(uiMessages, isTyping)
  /\ UNCHANGED <<uiMessages, isTyping, draft, chats>>
  /\ UNCHANGED <<first, pinned, given, instruction, other, otherTurns, held,
                 edits, wire, exhaust, clears, singleton>>

DrawerNext ==
  \/ HandleChange
  \/ HandleSubmit
  \/ HandleSuggestionSelect
  \/ ChatSettles
  \/ Rerender

DrawerSpec == DrawerInit /\ [][DrawerNext]_vars

\* --------------------------------------------------------- the map singleton
\* AtriusMap.getInstance with its two static fields, the SDK (newMap,
\* getAllPOIs) as the environment, and any number of callers.  A call runs
\* up to its first await in one step; what waits for a promise resumes
\* after the promise has settled, in any order.
ConfigKeys == {"accountId", "venueId", "headless", "pinnedLocation"}

\* what getMapInstance passes on: the kiosk's configuration, the plain one,
\* and one built without VITE_ATRIUS_VENUE_ID
MapConfigs ==
  {[accountId |-> "A1", venueId |-> "lax", headless |-> TRUE],
   [accountId |-> "A1", venueId |-> "lax"],
   [accountId |-> "A1", venueId |-> Undefined]}

IsValidConfig(config) ==
  /\ Get(config, "accountId") # Undefined
  /\ Get(config, "venueId") # Undefined

\* Value.Parse(Config, config) for a valid configuration
ParseConfig(config) == [k \in DOMAIN config \cap ConfigKeys |-> config[k]]

ParseError == [name |-> "AssertError", message |-> "Expected string"]
NewMapError == [name |-> "Error", message |-> "newMap failed"]
GetAllPOIsError == [name |-> "Error", message |-> "getAllPOIs failed"]

\* new AtriusMap(map, searchEngine), the map being the one newMap gave for
\* its call number n
NewAtriusMap(n, config) == [map |-> n, config |-> config]

Pending(at) == [state |-> "pending", at |-> at]
Fulfilled(value) == [state |-> "fulfilled", value |-> value]
Rejected(reason) == [state |-> "rejected", reason |-> reason]

IsSettled(promise) == Get(promise, "state") \in {"fulfilled", "rejected"}

\* what a settled promise gives to what awaits it
Settlement(promise) ==
  IF promise.state = "fulfilled" THEN Return(promise.value)
                                 ELSE Throw(promise.reason)

\* createInstance up to its first await, and the promise it returns
createInstance(config) ==
  IF IsValidConfig(config)
    THEN /\ newMapCalls' = Append(newMapCalls, ParseConfig(config))
         /\ initPromise' = Pending("newMap")
    ELSE /\ newMapCalls' = newMapCalls
         /\ initPromise' = Rejected(ParseError)

Caller(config, at, result) == [config |-> config, pc |-> at, result |-> result]

SingletonInit ==
  /\ AgentAsBuilt
  /\ WireIdle
  /\ ExhaustIdle
  /\ clears = 0
  /\ DrawerIdle
  /\ SingletonIdle

\* (a getInstance that looks at instance only)
GetInstanceWithoutInitPromise ==
  /\ Len(callers) < MaxCallers
  /\ \E config \in MapConfigs :
       IF instance # NoInstance
         THEN /\ callers' = Append(callers, Caller(config, "done", Return(instance)))
              /\ UNCHANGED <<instance, initPromise, newMapCalls>>
         ELSE /\ createInstance(config)
              /\ callers' = Append(callers, Caller(config, "first", NoResult))
              /\ UNCHANGED instance
  /\ UNCHANGED <<first, pinned, given, instruction, other, otherTurns, held,
                 edits, wire, exhaust, clears, drawer>>

\* getInstance(selector, config) up to its return or its await
GetInstance ==
  /\ Len(callers) < MaxCallers
  /\ \E config \in MapConfigs :
       IF instance # NoInstance
         THEN /\ callers' = Append(callers, Caller(config, "done", Return(instance)))
              /\ UNCHANGED <<instance, initPromise, newMapCalls>>
       ELSE IF initPromise # NoPromise
         THEN /\ callers' = Append(callers, Caller(config, "waiting", NoResult))
              /\ UNCHANGED <<instance, initPromise, newMapCalls>>
         ELSE /\ createInstance(config)
              /\ callers' = Append(callers, Caller(config, "first", NoResult))
              /\ UNCHANGED instance
  /\ UNCHANGED <<first, pinned, given, instruction, other, otherTurns, held,
                 edits, wire, exhaust, clears, drawer>>

\* AtriusMaps.newMap resolves: createInstance goes on to map.getAllPOIs()
NewMapResolves ==
  /\ initPromise = Pending("newMap")
  /\ initPromise' = Pending("getAllPOIs")
  /\ UNCHANGED <<instance, newMapCalls, callers>>
  /\ UNCHANGED <<first, pinned, given, instruction, other, otherTurns, held,
                 edits, wire, exhaust, clears, drawer>>

NewMapRejects ==
  /\ initPromise = Pending("newMap")
  /\ initPromise' = Rejected(NewMapError)
  /\ UNCHANGED <<instance, newMapCalls, callers>>
  /\ UNCHANGED <<first, pinned, given, instruction, other, otherTurns, held,
                 edits, wire, exhaust, clears, drawer>>

\* map.getAllPOIs() resolves: createInstance returns the new AtriusMap
GetAllPOIsResolves ==
  /\ initPromise = Pending("getAllPOIs")
  /\ initPromise' = Fulfilled(NewAtriusMap(Len(newMapCalls), Last(newMapCalls)))
  /\ UNCHANGED <<instance, newMapCalls, callers>>
  /\ UNCHANGED <<first, pinned, given, instruction, other, otherTurns, held,
                 edits, wire, exhaust, clears, drawer>>

GetAllPOIsRejects ==
  /\ initPromise = Pending("getAllPOIs")
  /\ initPromise' = Rejected(GetAllPOIsError)
  /\ UNCHANGED <<instance, newMapCalls, callers>>
  /\ UNCHANGED <<first, pinned, given, instruction, other, otherTurns, held,
                 edits, wire, exhaust, clears, drawer>>

\* the caller that started the initialisation runs on from its await:
\* this.instance = the value, or the rejection thrown on
InitialiserResumes ==
  /\ IsSettled(initPromise)
  /\ \E i \in 1..Len(callers) :
       /\ callers[i].pc = "first"
       /\ callers' = [callers EXCEPT ![i].pc = "done",
                                      ![i].result = Settlement(initPromise)]
       /\ instance' = (IF initPromise.state = "fulfilled"
                         THEN initPromise.value ELSE instance)
  /\ UNCHANGED <<initPromise, newMapCalls>>
  /\ UNCHANGED <<first, pinned, given, instruction, other, otherTurns, held,
                 edits, wire, exhaust, clears, drawer>>

\* a caller that was returned initPromise gets what it settled with
WaiterSettles ==
  /\ IsSettled(initPromise)
  /\ \E i \in 1..Len(callers) :
       /\ callers[i].pc = "waiting"
       /\ callers' = [callers EXCEPT ![i].pc = "done",
                                      ![i].result = Settlement(initPromise)]
  /\ UNCHANGED <<instance, initPromise, newMapCalls>>
  /\ UNCHANGED <<first, pinned, given, instruction, other, otherTurns, held,
                 edits, wire, exhaust, clears, drawer>>

SingletonNext ==
  \/ GetInstance
  \/ NewMapResolves
  \/ NewMapRejects
  \/ GetAllPOIsResolves
  \/ GetAllPOIsRejects
  \/ InitialiserResumes
  \/ WaiterSettles

SingletonSpec == SingletonInit /\ [][SingletonNext]_vars

\* ================================================================= claims

\* C1: one chat() call makes at most MAX_ITERATIONS generate calls, one per
\* iteration; the generate call of iteration MAX_ITERATIONS is passed an
\* empty tools list and every earlier one the full tool list; and a turn
\* that is not waiting for the provider or for a handler has settled.
C1_BoundedGenerateCalls ==
  /\ genCalls <= MAX_ITERATIONS
  /\ genCalls = iterations
  /\ status = "running" <=> pc \in {"generate", "handler"}
  /\ status # "new" =>
       /\ genCalls >= 1
       /\ sent.iteration = genCalls
       /\ sent.iteration = MAX_ITERATIONS => sent.tools = <<>>
       /\ sent.iteration < MAX_ITERATIONS => sent.tools = tools /\ Len(tools) = 5

C1_Witness ==
  /\ status = "returned"
  /\ genCalls = MAX_ITERATIONS
  /\ sent.tools = <<>>
  /\ Len(returned.toolCalls) >= MAX_ITERATIONS

\* C2: every tool_calls message of the history is immediately followed by a
\* tool_results message with as many results as there are invocations and
\* the same tool name at every position.
C2_LedgerPairing ==
  \A i \in 1..Len(messages) :
    messages[i].type = "tool_calls" =>
      /\ i < Len(messages)
      /\ messages[i + 1].type = "tool_results"
      /\ Len(messages[i + 1].content) = Len(messages[i].content)
      /\ \A k \in 1..Len(messages[i].content) :
           messages[i + 1].content[k].name = messages[i].content[k].name

C2_Witness ==
  /\ \E i \in 1..Len(messages) :
       /\ messages[i].type = "tool_calls"
       /\ Len(messages[i].content) = 2
       /\ messages[i + 1].type = "tool_results"
  /\ Last(messages).type = "tool_results"
  /\ pc = "generate"


\* what the claims say about the batch of the latest response
Registered(name) == \E i \in 1..Len(tools) : tools[i].name = name
Happened(e) == \E p \in 1..Len(events) : events[p] = e
HappenedBefore(e, q) == \E p \in 1..(q - 1) : events[p] = e
InBatch == HasToolCalls(response)
BatchDone == InBatch /\ pc # "handler"

Fails(call) ==
  ~Registered(call.name) \/ action(call.name, call.args).kind = "throw"

\* C4: a failing tool never aborts the turn: chat() rejects only when
\* generate rejects, never inside a batch; the failure is recorded in the
\* history inside the tool_results message together with the results of
\* the rest of the batch; and the generate call of the next iteration is
\* passed the history ending with that tool_results message.
C4_ToolFailureDoesNotAbort ==
  /\ status = "thrown" =>
       /\ sent.messages = messages
       /\ InBatch => Len(toolResults) = Len(response.toolCalls)
  /\ \A i \in 1..Len(messages) :
       messages[i].type = "tool_calls" =>
         /\ i < Len(messages)
         /\ Len(messages[i + 1].content) = Len(messages[i].content)
         /\ \A k \in 1..Len(messages[i].content) :
              Fails(messages[i].content[k]) =>
                /\ "error" \in DOMAIN messages[i + 1].content[k]
                /\ messages[i + 1].content[k].result = Null
  /\ (pc = "generate" /\ iterations > 1) =>
       /\ sent.messages = messages
       /\ Last(sent.messages) = ToolResultsMessage(toolResults)
       /\ Len(toolResults) = Len(response.toolCalls)

C4_Witness ==
  /\ pc = "generate"
  /\ iterations \in 2..(MAX_ITERATIONS - 1)
  /\ Len(response.toolCalls) = 2
  /\ Fails(response.toolCalls[1])
  /\ Last(sent.messages).type = "tool_results"
  /\ Len(Last(sent.messages).content) = 2
  /\ Get(Last(sent.messages).content[1], "error") = "timeout"
  /\ Happened(<<"end", 2>>)

\* C5: when generate rejects, chat() rejects without returning a result and
\* the history is the one that was passed to the rejecting generate call:
\* the history before the turn, this turn's user_input and the
\* tool_calls/tool_results pairs of the earlier iterations, and nothing
\* after them.
C5_ProviderErrorPropagates ==
  status = "thrown" =>
    /\ pc = "idle"
    /\ returned = NoResult
    /\ messages = sent.messages
    /\ Len(messages) = Len(before) + 1 + 2 * (iterations - 1)
    /\ SubSeq(messages, 1, Len(before)) = before
    /\ messages[Len(before) + 1].type = "user_input"
    /\ \A i \in (Len(before) + 2)..Len(messages) :
         messages[i].type =
           (IF (i - Len(before)) % 2 = 0 THEN "tool_calls" ELSE "tool_results")

C5_Witness ==
  /\ status = "thrown"
  /\ iterations = 3
  /\ Len(before) > 0
  /\ Last(messages).type = "tool_results"

IsResponse(r) == "text" \in DOMAIN r
HasText(r) == IsResponse(r) /\ Truthy(r.text)
IsEmptyResponse(r) == IsResponse(r) /\ ~HasToolCalls(r) /\ ~Truthy(r.text)
TextOf(r) == IF r.text = Null THEN "" ELSE r.text
IsExhaustionMessage(text, calls) ==
  text \in {CLARIFY_MESSAGE, APOLOGY_MESSAGE, FALLBACK_MESSAGE,
            EXPLORED_MESSAGE(Join(ToolNames(calls), ", "))}
ThisTurn == (Len(before) + 1)..Len(messages)

C8_EmptyAnswerAlways ==
  (status = "returned" /\ IsEmptyResponse(response)) =>
    /\ returned.message.content = ""
    /\ events = <<>>

\* C8 as amended: a response with neither text nor invocations ends the
\* turn without a tool being executed for it; before the ceiling the final
\* answer is the empty string and nothing is appended to the history; in
\* iteration MAX_ITERATIONS the final answer is the exhaustion message,
\* appended to the history as an assistant_response.
C8_EmptyAnswerBeforeCeiling ==
  (status # "thrown" /\ IsEmptyResponse(response)) =>
    /\ status = "returned"
    /\ events = <<>>
    /\ returned.toolCalls = allToolCalls
    /\ Len(allToolCalls) = Len(allToolResults)
    /\ iterations < MAX_ITERATIONS =>
         /\ returned.message.content = ""
         /\ messages = sent.messages
    /\ iterations = MAX_ITERATIONS =>
         /\ returned.message.content # ""
         /\ IsExhaustionMessage(returned.message.content, allToolCalls)
         /\ messages = Append(sent.messages,
                               AssistantResponse(returned.message.content))

C8_Witness ==
  /\ status = "returned"
  /\ IsEmptyResponse(response)
  /\ iterations \in 2..(MAX_ITERATIONS - 1)
  /\ returned.message.content = ""
  /\ Last(messages).type = "tool_results"

\* C9 as stated: the exhaustion message is returned only when tools were
\* run in iteration MAX_ITERATIONS; a turn whose last response was a text,
\* possibly empty, never returns it.
C9_ExhaustedOnlyAfterTools ==
  (status = "returned"
     /\ IsExhaustionMessage(returned.message.content, allToolCalls)) =>
    /\ iterations = MAX_ITERATIONS
    /\ HasToolCalls(response)

\* C9 as amended: the exhaustion message is returned exactly when iteration
\* MAX_ITERATIONS ends without a non-empty text, that is when tools were run
\* in that iteration or its response was an empty text; a turn that ends
\* before the ceiling, or with a non-empty text, returns the text of its
\* last response.
C9_ExhaustedAtCeilingWithoutText ==
  status = "returned" =>
    /\ IsExhaustionMessage(returned.message.content, allToolCalls)
         <=> /\ iterations = MAX_ITERATIONS
             /\ HasToolCalls(response) \/ IsEmptyResponse(response)
    /\ HasToolCalls(response) => iterations = MAX_ITERATIONS
    /\ (~HasToolCalls(response)
          /\ (iterations < MAX_ITERATIONS \/ HasText(response))) =>
         returned.message.content = TextOf(response)

C9_Witness ==
  /\ status = "returned"
  /\ iterations = MAX_ITERATIONS
  /\ HasToolCalls(response)
  /\ IsExhaustionMessage(returned.message.content, allToolCalls)
  /\ Last(messages) = AssistantResponse(returned.message.content)

\* an optional field that is there: neither null nor undefined
Present(v) == v \notin {Null, Undefined}
Succeeded(results) ==
  {k \in 1..Len(results) :
     ~Present(Get(results[k], "error")) /\ Present(results[k].result)}
Failed(results) ==
  {k \in 1..Len(results) : Present(Get(results[k], "error"))}

\* C10: the text of an exhausted turn follows from the results of the turn,
\* classified into succeeded (error absent, value present) and failed (error
\* present): none of either gives the clarifying message, some succeeded
\* and none failed the 'explored' message naming the tools called in the
\* turn, some failed the apology message; the text is appended to the
\* history as an assistant_response.
C10_ExhaustionClassification ==
  (status = "returned" /\ iterations = MAX_ITERATIONS
     /\ (HasToolCalls(response) \/ IsEmptyResponse(response))) =>
    /\ Last(messages) = AssistantResponse(returned.message.content)
    /\ returned.message.content =
         (IF Succeeded(returned.toolResults) = {} /\ Failed(returned.toolResults) = {}
            THEN CLARIFY_MESSAGE
          ELSE IF Failed(returned.toolResults) = {}
            THEN EXPLORED_MESSAGE(Join(ToolNames(returned.toolCalls), ", "))
          ELSE APOLOGY_MESSAGE)

\* the guidance of an instruction: what follows the base instruction, the
\* location context and, when it is there, the tools section
GuidanceOf(instr) ==
  LET base == BASE_SYSTEM_INSTRUCTION \o buildLocationContext
      withTools == base \o TOOLS_INSTRUCTIONS
  IN  IF StartsWith(instr, withTools)
        THEN SubSeq(instr, Len(withTools) + 1, Len(instr))
        ELSE SubSeq(instr, Len(base) + 1, Len(instr))

StatesRemaining(text, n) ==
  /\ Contains(text, "You have " \o ToString(n) \o " iteration(s) remaining")
  /\ Contains(text, "Prioritize")

\* C11 as stated: in every iteration before MAX_ITERATIONS - 1 the tools are
\* offered and no guidance is appended to the instruction; in iteration
\* MAX_ITERATIONS - 1 the tools are offered and the guidance states the
\* number of iterations that remain; in iteration MAX_ITERATIONS no tools
\* are offered and the guidance states that none remains.
C11_WarningInLastIterationOnly ==
  status # "new" =>
    /\ sent.iteration < MAX_ITERATIONS - 1 =>
         /\ sent.tools = tools
         /\ GuidanceOf(sent.systemInstruction) = ""
    /\ sent.iteration = MAX_ITERATIONS - 1 =>
         /\ sent.tools = tools
         /\ StatesRemaining(GuidanceOf(sent.systemInstruction),
                            MAX_ITERATIONS - sent.iteration)
    /\ sent.iteration >= MAX_ITERATIONS =>
         /\ sent.tools = <<>>
         /\ Contains(GuidanceOf(sent.systemInstruction), "no iterations left")

\* C11 as amended: in every iteration before MAX_ITERATIONS - 2 the tools
\* are offered and no guidance is appended to the instruction; in the
\* iterations MAX_ITERATIONS - 2 and MAX_ITERATIONS - 1 the tools are offered
\* and the guidance states the exact number of iterations that remain; in
\* iteration MAX_ITERATIONS no tools are offered and the guidance states
\* that none remains.
C11_WarningInLastTwoIterations ==
  status # "new" =>
    /\ sent.iteration < MAX_ITERATIONS - 2 =>
         /\ sent.tools = tools
         /\ Len(sent.tools) > 0
         /\ GuidanceOf(sent.systemInstruction) = ""
    /\ (MAX_ITERATIONS - 2 <= sent.iteration
          /\ sent.iteration < MAX_ITERATIONS) =>
         /\ sent.tools = tools
         /\ Len(sent.tools) > 0
         /\ StatesRemaining(GuidanceOf(sent.systemInstruction),
                            MAX_ITERATIONS - sent.iteration)
    /\ sent.iteration >= MAX_ITERATIONS =>
         /\ sent.tools = <<>>
         /\ Contains(GuidanceOf(sent.systemInstruction), "no iterations left")
         /\ ~Contains(sent.systemInstruction, "Tools:")

C11_Witness ==
  /\ pc = "generate"
  /\ sent.iteration = MAX_ITERATIONS - 2
  /\ sent.tools = tools
  /\ StatesRemaining(sent.systemInstruction, 2)

\* C12: buildSystemInstruction(i) starts with the base instruction for every
\* i; for i = 8 and i = 9 it holds the warning with exactly
\* MAX_ITERATIONS - i remaining iterations, and the tools section; for
\* i >= 10 it holds the 'no iterations left' text and no tools section; for
\* i <= 7 it holds no warning about remaining iterations, and the tools
\* section.
C12_InstructionByIteration ==
  instruction # Null =>
    /\ StartsWith(instruction, BASE_SYSTEM_INSTRUCTION)
    /\ given \in {8, 9} =>
         /\ StatesRemaining(instruction, MAX_ITERATIONS - given)
         /\ \A n \in 0..MaxGiven :
              n # MAX_ITERATIONS - given => ~StatesRemaining(instruction, n)
         /\ Contains(instruction, "Tools:")
         /\ ~Contains(instruction, "no iterations left")
    /\ given >= 10 =>
         /\ Contains(instruction, "no iterations left")
         /\ ~Contains(instruction, "Tools:")
         /\ ~Contains(instruction, "iteration(s) remaining")
    /\ given <= 7 =>
         /\ ~Contains(instruction, "iteration(s) remaining")
         /\ ~Contains(instruction, "Prioritize")
         /\ ~Contains(instruction, "no iterations left")
         /\ Contains(instruction, "Tools:")

C12_Witness ==
  /\ instruction # Null
  /\ given = 8
  /\ pinned # NoPin
  /\ Contains(instruction, "You have 2 iteration(s) remaining")
  /\ Contains(instruction, "Gate B12 Kiosk")

\* the invocations, and the results, of the batches this turn recorded in
\* the history, in order
RECURSIVE ContentOf(_, _, _)
ContentOf(msgs, type, from) ==
  IF from > Len(msgs) THEN <<>>
  ELSE (IF msgs[from].type = type THEN msgs[from].content ELSE <<>>)
         \o ContentOf(msgs, type, from + 1)

BatchesOf(msgs, from) ==
  {i \in from..Len(msgs) : msgs[i].type = "tool_calls"}

\* C13: a turn whose provider returned a batch of invocations in each of the
\* iterations 1..MAX_ITERATIONS - 1 and a non-empty text T in iteration
\* MAX_ITERATIONS returns T, not the exhaustion message; the invocations it
\* returns are those of the MAX_ITERATIONS - 1 batches, in order; and it made
\* exactly MAX_ITERATIONS generate calls.
C13_TextAtCeiling ==
  (status = "returned" /\ iterations = MAX_ITERATIONS
     /\ HasText(response) /\ ~HasToolCalls(response)) =>
    /\ returned.message.content = response.text
    /\ finalText = response.text
    /\ ~IsExhaustionMessage(returned.message.content, allToolCalls)
    /\ Last(messages) = AssistantResponse(response.text)
    /\ Cardinality(BatchesOf(messages, Len(before) + 1)) = MAX_ITERATIONS - 1
    /\ returned.toolCalls = ContentOf(messages, "tool_calls", Len(before) + 1)
    /\ Len(returned.toolCalls) >= MAX_ITERATIONS - 1
    /\ genCalls = MAX_ITERATIONS
    /\ sent.tools = <<>>

C13_Witness ==
  /\ status = "returned"
  /\ iterations = MAX_ITERATIONS
  /\ genCalls = MAX_ITERATIONS
  /\ returned.message.content = "Found it."
  /\ Len(returned.toolCalls) = MAX_ITERATIONS - 1
  /\ \A k \in 1..Len(returned.toolCalls) : returned.toolCalls[k].name = "search"

\* C14: a turn whose provider returned a non-empty text in iteration 1 made
\* exactly one generate call and executed no tool, and the history grew by
\* exactly two messages: the user_input holding the user's text as it was
\* given (also when the text is JSON), then the assistant_response holding
\* the provider's text.
C14_ImmediateText ==
  (status = "returned" /\ iterations = 1
     /\ HasText(response) /\ ~HasToolCalls(response)) =>
    /\ genCalls = 1
    /\ events = <<>>
    /\ returned.toolCalls = <<>>
    /\ returned.toolResults = <<>>
    /\ returned.message.content = response.text
    /\ Len(messages) = Len(before) + 2
    /\ SubSeq(messages, 1, Len(before)) = before
    /\ messages[Len(before) + 1] =
         [role |-> "user", type |-> "user_input", content |-> said]
    /\ messages[Len(before) + 2] =
         [role |-> "assistant", type |-> "assistant_response",
          content |-> response.text]
    /\ sent.messages = SubSeq(messages, 1, Len(before) + 1)

C14_Witness ==
  /\ status = "returned"
  /\ iterations = 1
  /\ genCalls = 1
  /\ said = "{\"query\":\"find bathrooms\"}"
  /\ Len(messages) = 2
  /\ messages[1].type = "user_input"
  /\ messages[1].content = said
  /\ messages[2].content = "Found it."

\* the function-call parts of a request, batch by batch
FunctionCallParts(contents) ==
  LET at == {i \in 1..Len(contents) :
               Len(contents[i].parts) > 0
                 /\ "functionCall" \in DOMAIN contents[i].parts[1]}
      RECURSIVE From(_)
      From(i) ==
        IF i > Len(contents) THEN <<>>
        ELSE (IF i \in at THEN <<contents[i].parts>> ELSE <<>>) \o From(i + 1)
  IN  From(1)

\* C15: every batch generate returned is stored in the history as it was
\* returned, and it is replayed in the request of every later generate call:
\* the function-call part at the same position carries the invocation's
\* name, arguments and exactly its thought signature, and no signature when
\* the invocation was returned without one.
C15_SignatureRoundTrip ==
  /\ BatchDone =>
       \E i \in ThisTurn :
         /\ messages[i].type = "tool_calls"
         /\ messages[i].content = response.toolCalls
         /\ \A j \in (i + 1)..Len(messages) : messages[j].type # "tool_calls"
  /\ pc # "handler" =>
       ContentOf(messages, "tool_calls", 1)
         = ContentOf([b \in 1..Len(replies) |->
                        [type |-> "tool_calls", content |-> replies[b]]],
                     "tool_calls", 1)
  /\ pc = "generate" =>
       LET parts == FunctionCallParts(requestContents(sent.messages))
       IN  /\ Len(parts) = Len(replies)
           /\ \A b \in 1..Len(replies) :
                /\ Len(parts[b]) = Len(replies[b])
                /\ \A k \in 1..Len(replies[b]) :
                     LET call == replies[b][k]
                         part == parts[b][k]
                     IN  /\ part.functionCall.name = call.name
                         /\ part.functionCall.args = call.args
                         /\ "thoughtSignature" \in DOMAIN call =>
                              /\ "thoughtSignature" \in DOMAIN part
                              /\ part.thoughtSignature = call.thoughtSignature
                         /\ "thoughtSignature" \notin DOMAIN call =>
                              "thoughtSignature" \notin DOMAIN part

C15_Witness ==
  /\ pc = "generate"
  /\ turns = 2
  /\ Len(replies) = 1
  /\ replies[1] = <<SignedInvocation>>
  /\ LET parts == FunctionCallParts(requestContents(sent.messages))
     IN  /\ Len(parts) = 1
         /\ parts[1][1].thoughtSignature = "sig-A"

IsPrefix(a, b) == Len(a) <= Len(b) /\ SubSeq(b, 1, Len(a)) = a

\* C16: the history is append-only: every step of a turn, whether the turn
\* completes, is exhausted or is thrown out of, leaves the messages that
\* were there in place and in order, so the history before a chat() call
\* is a prefix of the history during and after it and of what every
\* generate call of the turn is passed; only clearHistory() shrinks the
\* history.
C16_AppendOnly ==
  /\ [](/\ IsPrefix(before, messages)
        /\ status # "new" =>
             /\ IsPrefix(before, sent.messages)
             /\ IsPrefix(sent.messages, messages)
             /\ Len(messages) > Len(before))
  /\ [][ClearHistory \/ IsPrefix(messages, messages')]_vars

C16_Witness ==
  /\ turns = 2
  /\ pc = "generate"
  /\ Len(before) >= 4
  /\ \E i \in 1..Len(before) : before[i].type = "tool_results"
  /\ IsPrefix(before, sent.messages)
  /\ Last(sent.messages).type = "user_input"

\* C17: the lists a turn returns are the turn's own: the invocations are
\* the concatenation, in order, of the tool_calls messages the turn added to
\* the history, the results that of its tool_results messages, nothing of
\* an earlier turn is in them, and the two lists have the same length and
\* the same tool name at every position.
C17_FreshPerTurn ==
  /\ status = "returned" =>
       /\ returned.toolCalls = ContentOf(messages, "tool_calls", Len(before) + 1)
       /\ returned.toolResults = ContentOf(messages, "tool_results", Len(before) + 1)
       /\ Len(returned.toolCalls) = Len(returned.toolResults)
       /\ \A k \in 1..Len(returned.toolCalls) :
            returned.toolResults[k].name = returned.toolCalls[k].name
       /\ Len(returned.toolCalls) + Len(ContentOf(before, "tool_calls", 1))
            = Len(ContentOf(messages, "tool_calls", 1))
  /\ (status = "running" /\ pc = "generate") =>
       /\ allToolCalls = ContentOf(messages, "tool_calls", Len(before) + 1)
       /\ allToolResults = ContentOf(messages, "tool_results", Len(before) + 1)

C17_Witness ==
  /\ status = "returned"
  /\ turns = 2
  /\ Len(ContentOf(before, "tool_calls", 1)) >= 2
  /\ Len(returned.toolCalls) >= 2
  /\ returned.toolCalls = ContentOf(messages, "tool_calls", Len(before) + 1)

\* the messages of the turns of one Agent: the user's texts, the provider's
\* texts and invocations, and the exhaustion message
OwnMessages(msgs, userTexts, invocations) ==
  \A i \in 1..Len(msgs) :
    /\ msgs[i].type = "user_input" => msgs[i].content \in userTexts
    /\ msgs[i].type = "tool_calls" =>
         \A k \in 1..Len(msgs[i].content) : msgs[i].content[k] \in invocations
    /\ msgs[i].type = "tool_results" =>
         \A k \in 1..Len(msgs[i].content) :
           \E call \in invocations :
             msgs[i].content[k] =
               SettledResult(call.name, action(call.name, call.args))

\* C18: two Agent instances are isolated: a step of a chat() call on one
\* leaves the history of the other as it is, whatever the interleaving, and
\* the history of each holds only the messages of its own turns.
C18_SessionsIsolated ==
  /\ [](/\ OwnMessages(messages, {said}, {usual})
        /\ OwnMessages(AgentTwo.messages, {OtherUserText}, {OtherInvocation})
        /\ status = "new" <=> messages = <<>>
        /\ AgentTwo.status = "new" <=> AgentTwo.messages = <<>>)
  /\ [][/\ AgentOneStep => AgentTwo.messages' = AgentTwo.messages
        /\ AgentTwoStep => messages' = messages]_vars

C18_Witness ==
  /\ pc = "handler"
  /\ AgentTwo.pc = "generate"
  /\ iterations = 2
  /\ AgentTwo.iterations = 3
  /\ Len(messages) = 3
  /\ Len(AgentTwo.messages) = 5
  /\ messages[1].content = UsualUserText
  /\ AgentTwo.messages[1].content = OtherUserText

\* C19: getHistory() returns a copy: what it returns is the history of that
\* moment; pushing onto the returned array, popping from it or reversing it
\* leaves the Agent's history as it is; and no later step of a chat() call
\* changes the returned array.
C19_DefensiveCopy ==
  [][/\ GetHistory => HeldItems' = messages
     /\ CallerStep => messages' = messages
     /\ PushHeld => Len(HeldItems') = Len(HeldItems) + 1
     /\ PopHeld => Len(HeldItems') = Len(HeldItems) - 1
     /\ ReverseHeld => HeldItems' = Reverse(HeldItems)
     /\ AgentOneStep => HeldItems' = HeldItems]_vars

C19_Witness ==
  /\ status = "returned"
  /\ edits = 1
  /\ Len(messages) = 6
  /\ Len(HeldItems) = 3
  /\ HeldItems[1].type = "tool_results"
  /\ HeldItems[3] = messages[1]

C21_RegistryImmutable ==
  /\ tools = <<search, getPOIDetails, getBuildingsAndLevels, showPOI,
               showDirections>>
  /\ DOMAIN toolRegistry = {tools[i].name : i \in 1..Len(tools)}
  /\ \A i \in 1..Len(tools) : toolRegistry[tools[i].name] = tools[i]
  /\ \A i \in 1..Len(messages) :
       messages[i].type = "tool_results" =>
         \A k \in 1..Len(messages[i].content) :
           LET r == messages[i].content[k]
           IN  (Get(r, "error") = "Unknown tool: " \o r.name)
                 <=> r.name \notin DOMAIN toolRegistry

C21_Witness ==
  /\ turns = 2
  /\ status = "returned"
  /\ \E i, j \in 1..Len(messages) :
       /\ i < j
       /\ messages[i].type = "tool_results"
       /\ messages[j].type = "tool_results"
       /\ \E m \in (i + 1)..(j - 1) : messages[m].type = "user_input"
       /\ messages[i].content[1].name = "search"
       /\ messages[j].content[1].name = "search"
       /\ Get(messages[i].content[1], "error") = Undefined
       /\ Get(messages[j].content[1], "error") = Undefined

IsMalformed(body) == finishReasonOf(body) = "MALFORMED_FUNCTION_CALL"

\* C22: one generate call posts at most two requests, the second one the
\* same as the first; the second is posted exactly when the first body is
\* flagged MALFORMED_FUNCTION_CALL; and the second body, flagged or not, is
\* parsed and returned without a further request.
C22_RetryOnce ==
  /\ Len(requests) <= 2
  /\ gpc # "idle" => Len(requests) = retryCount + 1
  /\ \A i \in 1..Len(requests) :
       requests[i] = buildRequest(input, offered, instruction)
  /\ Len(requests) = 2 <=> (Len(bodies) >= 1 /\ IsMalformed(bodies[1]))
  /\ (Len(bodies) = 1 /\ ~IsMalformed(bodies[1])) =>
       gpc = "done" /\ answer = Return(parseResponse(bodies[1]))
  /\ Len(bodies) = 2 =>
       gpc = "done" /\ answer = Return(parseResponse(bodies[2]))
  /\ Len(bodies) <= 2

C22_Witness ==
  /\ Len(requests) = 2
  /\ Len(bodies) = 2
  /\ IsMalformed(bodies[1])
  /\ IsMalformed(bodies[2])
  /\ gpc = "done"
  /\ answer.kind = "return"
  /\ HasToolCalls(answer.value)

Threw == Get(answer, "kind") = "throw"

C24_NoInvocationsWithoutTools ==
  (Get(answer, "kind") = "return" /\ Len(offered) = 0) =>
    /\ "tools" \notin DOMAIN requests[1]
    /\ ~HasToolCalls(answer.value)

\* whether executeTool meets a failure for an invocation
MeetsFailure(call) ==
  ~Registered(call.name) \/ action(call.name, call.args).kind = "throw"

\* C25 as stated: every result of the executor, of a success as of a
\* failure, has the three keys name, result and error, the one that does
\* not apply being null.
C25_AllKeysPresent ==
  \A k \in 1..Len(allToolResults) :
    LET r == allToolResults[k]
    IN  /\ DOMAIN r = {"name", "result", "error"}
        /\ MeetsFailure(allToolCalls[k]) => r.result = Null
        /\ ~MeetsFailure(allToolCalls[k]) => r.error = Null

\* C25, amended: every result of the executor has the keys name and result;
\* the key error is there exactly for a failure (an unknown tool, a handler
\* that threw), with a string as its value and null as the result; for a
\* success the key error is left out.
C25_ErrorKeyOnlyOnFailure ==
  \A k \in 1..Len(allToolResults) :
    LET r == allToolResults[k]
    IN  /\ {"name", "result"} \subseteq DOMAIN r
        /\ DOMAIN r \subseteq {"name", "result", "error"}
        /\ r.name = allToolCalls[k].name
        /\ "error" \in DOMAIN r <=> MeetsFailure(allToolCalls[k])
        /\ "error" \in DOMAIN r =>
             r.result = Null /\ r.error \notin {Null, Undefined}

C25_Witness ==
  /\ status = "returned"
  /\ \E j, k \in 1..Len(allToolResults) :
       /\ DOMAIN allToolResults[j] = {"name", "result"}
       /\ allToolResults[j].result = Obj
       /\ DOMAIN allToolResults[k] = {"name", "result", "error"}
       /\ allToolResults[k].error = "timeout"

\* equality of two JSON values of any kind (a string, an object), by what
\* they are written as
SameJson(a, b) == ToString(a) = ToString(b)

\* C26: buildContents translates the history one-to-one: as many contents
\* as messages, in order; role user for user messages and model for
\* assistant messages; a text message gives one text part; a tool_calls
\* message one functionCall part per invocation, in order; a tool_results
\* message one functionResponse part per result, in order, whose result is
\* {error: message} when the result has an error and the value otherwise.
C26_OneToOne ==
  gpc # "idle" =>
    LET contents == buildContents(input)
    IN  /\ Len(contents) = Len(input)
        /\ \A i \in 1..Len(input) :
             LET msg == input[i]
                 c == contents[i]
             IN  /\ c.role = (IF msg.type \in {"user_input", "tool_results"}
                                THEN "user" ELSE "model")
                 /\ msg.type \in {"user_input", "assistant_response"} =>
                      c.parts = <<[text |-> msg.content]>>
                 /\ msg.type \in {"tool_calls", "tool_results"} =>
                      Len(c.parts) = Len(msg.content)
                 /\ msg.type = "tool_calls" =>
                      \A k \in 1..Len(msg.content) :
                        c.parts[k].functionCall =
                          [name |-> msg.content[k].name,
                           args |-> msg.content[k].args]
                 /\ msg.type = "tool_results" =>
                      \A k \in 1..Len(msg.content) :
                        LET tr == msg.content[k]
                            fr == c.parts[k].functionResponse
                        IN  /\ fr.name = tr.name
                            /\ "error" \in DOMAIN tr =>
                                 SameJson(fr.response.result,
                                          [error |-> tr.error])
                            /\ "error" \notin DOMAIN tr =>
                                 SameJson(fr.response.result, tr.result)

\* the plain messages of a list: the positions of those typed user_input or
\* assistant_response
PlainPositions(msgs) ==
  {i \in 1..Len(msgs) : msgs[i].type \in {"user_input", "assistant_response"}}

\* the position in msgs of its j-th plain message
PlainPosition(msgs, j) ==
  CHOOSE i \in PlainPositions(msgs) :
    Cardinality({m \in PlainPositions(msgs) : m <= i}) = j

\* C27: filterToolMessages returns exactly the messages typed user_input or
\* assistant_response, in the order they have in the list given; the list
\* given stays as it is; filtering the result again gives the result; and
\* isToolMessage is true exactly for the messages typed tool_calls or
\* tool_results, those with an empty content among them.
C27_FilterExact ==
  /\ [](/\ shown # NoArray =>
             /\ Len(shown.items) = Cardinality(PlainPositions(input))
             /\ \A j \in 1..Len(shown.items) :
                  shown.items[j] = input[PlainPosition(input, j)]
        /\ \A i \in 1..Len(input) :
             isToolMessage(input[i])
               <=> input[i].type \in {"tool_calls", "tool_results"})
  /\ [][input' = input]_vars

C27_Witness ==
  /\ shown # NoArray
  /\ shown.of = "shown"
  /\ Len(input) = 3
  /\ input[1] = AssistantResponse("Found it.")
  /\ input[2] = ToolResultsMessage(<<>>)
  /\ input[3] = UserInput(UsualUserText)
  /\ shown.items = <<input[1], input[3]>>

\* C28: the invocations of one response are executed in parallel: when the
\* first handler of the batch completes, the handler of every invocation of
\* the batch that names a registered tool has been started.
C28_ParallelExecution ==
  InBatch =>
    \A q \in 1..Len(events) :
      events[q][1] = "end" =>
        \A k \in 1..Len(response.toolCalls) :
          Registered(response.toolCalls[k].name) =>
            HappenedBefore(<<"start", k>>, q)

\* the assistant_response messages the latest turn appended
ResponsesThisTurn == {i \in ThisTurn : messages[i].type = "assistant_response"}

\* C29: a turn that returns appends an assistant_response to the history
\* exactly when its final text is not empty, as the last message and with
\* the final text as content; no assistant_response of the history has an
\* empty content; and a turn that returns the empty text does so before the
\* ceiling and leaves the history ending in a user_input or tool_results
\* message.
C29_ResponseRecordedIffText ==
  /\ \A i \in 1..Len(messages) :
       messages[i].type = "assistant_response" =>
         messages[i].content \notin {"", Null, Undefined}
  /\ status = "returned" =>
       LET text == returned.message.content
       IN  /\ text # "" =>
                /\ ResponsesThisTurn = {Len(messages)}
                /\ Last(messages) = AssistantResponse(text)
           /\ text = "" =>
                /\ ResponsesThisTurn = {}
                /\ iterations < MAX_ITERATIONS
                /\ Last(messages).type \in {"user_input", "tool_results"}
  /\ status = "running" => ResponsesThisTurn = {}

C29_Witness ==
  /\ status = "returned"
  /\ returned.message.content = ""
  /\ iterations \in 2..(MAX_ITERATIONS - 1)
  /\ Last(messages).type = "tool_results"
  /\ \E i \in 1..Len(before) : messages[i].type = "assistant_response"

\* C30: the clarifying message ("I wasn't able to explore much") is the
\* text of an exhausted turn only when the turn executed no invocation at
\* all; an exhausted turn that executed at least one invocation returns the
\* 'explored' message or the apology message.
C30_ClarifyOnlyWithoutTools ==
  (status = "returned" /\ iterations = MAX_ITERATIONS
     /\ (HasToolCalls(response) \/ IsEmptyResponse(response))) =>
    /\ returned.message.content = CLARIFY_MESSAGE =>
         Len(returned.toolCalls) = 0
    /\ Len(returned.toolCalls) > 0 =>
         returned.message.content \in
           {EXPLORED_MESSAGE(Join(ToolNames(returned.toolCalls), ", ")),
            APOLOGY_MESSAGE}

\* C31: whenever chat() returns after iteration MAX_ITERATIONS, whether that
\* iteration gave a text, an empty text or invocations, the text it returns
\* is not empty, the turn appended exactly one assistant_response, that
\* message is the last of the history, and its content is the returned text.
C31_CeilingAlwaysAnswers ==
  (status = "returned" /\ iterations = MAX_ITERATIONS) =>
    /\ Truthy(returned.message.content)
    /\ finalText = returned.message.content
    /\ ResponsesThisTurn = {Len(messages)}
    /\ Last(messages) = AssistantResponse(returned.message.content)

C31_Witness ==
  /\ status = "returned"
  /\ iterations = MAX_ITERATIONS
  /\ HasToolCalls(response)
  /\ Len(replies) >= MAX_ITERATIONS
  /\ ResponsesThisTurn = {Len(messages)}
  /\ Last(messages).content = returned.message.content
  /\ messages[Len(messages) - 1].type = "tool_results"

\* C32: no tool handler is invoked in an iteration whose generate call was
\* given an empty tools list: when the provider returns invocations in
\* iteration MAX_ITERATIONS all the same, none of them is executed, none
\* joins the invocations the turn returns, and no batch is recorded in the
\* history for them.
C32_NoHandlerWithoutTools ==
  ("tools" \in DOMAIN sent /\ sent.tools = <<>> /\ pc # "generate") =>
    /\ pc # "handler"
    /\ \A q \in 1..Len(events) : events[q][1] \notin {"call", "start"}
    /\ Cardinality(BatchesOf(messages, Len(before) + 1)) < MAX_ITERATIONS

\* C33: for every list of results, buildExhaustionMessage returns the
\* clarifying, the 'explored' or the apology message; its last return, the
\* generic fallback, is never reached.
C33_FallbackUnreachable ==
  exhaustion # Null =>
    /\ exhaustion \in {CLARIFY_MESSAGE, APOLOGY_MESSAGE,
                       EXPLORED_MESSAGE(Join(ToolNames(called), ", "))}
    /\ exhaustion # FALLBACK_MESSAGE

C33_Witness ==
  /\ exhaustion = APOLOGY_MESSAGE
  /\ Len(outcomes) = MaxOutcomes
  /\ \E k \in 1..Len(outcomes) : IsSuccessful(outcomes[k])
  /\ \E k \in 1..Len(outcomes) : IsFailed(outcomes[k])
  /\ \E k \in 1..Len(outcomes) :
       ~IsSuccessful(outcomes[k]) /\ ~IsFailed(outcomes[k])

\* the invocations of the list whose handler raised an exception
Raised(calls) ==
  {k \in 1..Len(calls) :
     /\ calls[k].name \in DOMAIN MapOfTools(tools)
     /\ action(calls[k].name, calls[k].args).kind = "throw"}

\* C34: a result that comes from a handler raising an exception, whatever
\* the message of the exception (the empty string included), is a failure
\* for what comes after: the exhaustion rule counts it as failed, so the
\* message of a turn with such a result is the apology, and the adapter
\* sends it to the provider as an error object, not as a null value.
C34_RaisedIsFailure ==
  exhaustion # Null =>
    /\ Raised(called) # {} => exhaustion = APOLOGY_MESSAGE
    /\ \A k \in Raised(called) :
         SameJson(functionResponsePart(outcomes[k]).functionResponse.response.result,
                  [error |-> outcomes[k].error])

\* C35: in every iteration of every turn the tools list and the instruction
\* of the generate call agree: the tools list is empty exactly when the
\* instruction holds the 'no iterations left' guidance and leaves out the
\* tools section.
C35_WithdrawalMatchesInstruction ==
  "tools" \in DOMAIN sent =>
    /\ sent.tools = <<>> <=>
         /\ Contains(sent.systemInstruction, "You have no iterations left.")
         /\ ~Contains(sent.systemInstruction, TOOLS_INSTRUCTIONS)
    /\ sent.tools # <<>> <=>
         /\ ~Contains(sent.systemInstruction, "You have no iterations left.")
         /\ Contains(sent.systemInstruction, TOOLS_INSTRUCTIONS)
    /\ sent.tools \in {<<>>, tools}

C35_Witness ==
  /\ pc = "generate"
  /\ sent.iteration = MAX_ITERATIONS
  /\ sent.tools = <<>>
  /\ Contains(sent.systemInstruction, "You have no iterations left.")
  /\ ~Contains(sent.systemInstruction, "Tools:")
  /\ \E i \in 1..Len(sent.messages) : sent.messages[i].type = "tool_results"

\* C36: also when two chat() calls on the same Agent are under way at the
\* same time and take turns at their awaits (on generate and on the tool
\* handlers), every tool_calls message of the history is followed at once
\* by the tool_results message of the same batch, with no message of the
\* other call between the two.
C36_PairingUnderInterleaving ==
  \A i \in 1..Len(messages) :
    /\ messages[i].type = "tool_calls" =>
         /\ i < Len(messages)
         /\ messages[i + 1] = ToolResultsMessage(ResultsOf(messages[i].content))
    /\ messages[i].type = "tool_results" =>
         /\ i > 1
         /\ messages[i - 1].type = "tool_calls"

\* both calls under way at once, each with a batch recorded, those of the
\* second call between those of the first
C36_Witness ==
  /\ pc = "generate"
  /\ Second.pc = "handler"
  /\ Len(messages) = 8
  /\ messages[1].type = "user_input"
  /\ messages[2].type = "user_input"
  /\ messages[3].content = <<usual>>
  /\ messages[5].content = <<OtherInvocation>>
  /\ messages[7].content = <<usual>>
  /\ messages[8].type = "tool_results"

\* C37: however clearHistory() falls among the steps of a chat() call under
\* way, a history that is not empty begins with a user_input message: no
\* tool_calls, tool_results or assistant_response message of a turn whose
\* user_input was cleared is left at its head.
C37_HistoryBeginsWithUserInput ==
  Len(messages) > 0 => messages[1].type = "user_input"

\* C38: the chat drawer keeps chat() calls on the Agent one at a time:
\* isTyping is set in the step that calls agent.chat and is reset in the
\* step in which the call settles, resolved or rejected; while isTyping is
\* set the input is disabled and the suggestions are not shown, so that no
\* message is sent; and at most one agent.chat call is under way.
C38_SingleFlight ==
  /\ [](/\ Len(chats) <= 1
        /\ isTyping <=> Len(chats) = 1
        /\ isTyping => rendered.disabled /\ ~rendered.showEmptyState)
  /\ [][/\ Len(chats') > Len(chats) => ~isTyping /\ isTyping'
        /\ Len(chats') < Len(chats) => isTyping /\ ~isTyping'
        /\ isTyping => Sends' = Sends]_vars

\* a second message sent after the first call was rejected, while the
\* first is still the only call that was under way
C38_Witness ==
  /\ isTyping
  /\ chats = <<"Where is gate B12?">>
  /\ Len(uiMessages) = 3
  /\ uiMessages[1].content \in Suggestions
  /\ uiMessages[2] =
       UiMessage("assistant",
                 "I'm sorry, I encountered an error: An unexpected error occurred. Please try again.")
  /\ uiMessages[3] = UiMessage("user", "Where is gate B12?")

\* the getInstance calls that have settled, by how they settled
Resolved == {i \in 1..Len(callers) : Get(callers[i].result, "kind") = "return"}
RejectedCalls == {i \in 1..Len(callers) : Get(callers[i].result, "kind") = "throw"}

\* C39: AtriusMap.getInstance initialises the map at most once, however the
\* getInstance calls interleave: newMap is called at most once, with the
\* configuration of the first getInstance call; every call that resolves
\* gives the same instance; and once the initialisation has failed, every
\* call is rejected with the same error and no initialisation starts again.
C39_InitialisedOnce ==
  /\ [](/\ Len(newMapCalls) <= 1
        /\ Len(newMapCalls) = 1 => newMapCalls[1] = ParseConfig(callers[1].config)
        /\ \A i \in Resolved :
             /\ callers[i].result.value = NewAtriusMap(1, newMapCalls[1])
             /\ initPromise = Fulfilled(callers[i].result.value)
        /\ instance # NoInstance => initPromise = Fulfilled(instance)
        /\ \A i \in RejectedCalls :
             /\ initPromise = Rejected(callers[i].result.error)
             /\ instance = NoInstance
        /\ \A i \in 1..Len(callers) :
             callers[i].pc = "first" => i = 1)
  /\ [][Get(initPromise, "state") = "rejected" =>
          /\ initPromise' = initPromise
          /\ newMapCalls' = newMapCalls
          /\ instance' = instance]_vars

\* three calls with three configurations, the second made while the map was
\* being made and the third after, all resolved with the map of the first
C39_Witness ==
  /\ Len(callers) = 3
  /\ Resolved = {1, 2, 3}
  /\ callers[1].config # callers[2].config
  /\ ~IsValidConfig(callers[3].config)
  /\ "headless" \in DOMAIN callers[1].config
  /\ instance = NewAtriusMap(1, callers[1].config)
====
